---- MODULE Spec2Model ----
(***************************************************************************)
(* Fugitive3dServerRepository: the in-memory server registry (srvrepo),    *)
(* its address codec, the HTTP registration workflow (internal/httpapi)    *)
(* with the UDP reachability probe, and the background pruner; at the end  *)
(* the earlier revisions of main.go, which reuse the variables: servers is *)
(* their map, calls and mu their goroutines and mux.                       *)
(*                                                                         *)
(* Strings are sequences of one-character strings, net.IP values are       *)
(* sequences of bytes (length 0 = nil, 4 or 16), time is an integer number *)
(* of half-seconds where the pruner's interval is halved, of seconds       *)
(* elsewhere.                                                              *)
(***************************************************************************)
EXTENDS Integers, Sequences, FiniteSets, TLC

VARIABLES
    servers,     \* ServerRepository.servers : map[ServerID]Server
    now,         \* the wall clock read by time.Now()
    lastCall,    \* the repository call that returned last, with its result
    sinceRemove, \* history: ids registered since the last Remove of that id
    mu,          \* ServerRepository.mu : sync.RWMutex (writer, readers)
    calls,       \* per goroutine: the repository call it is executing
    ncalls,      \* number of repository calls started by the goroutines
    lastLocked,  \* history: per id, the server of the Register that locked last
    firstCount,  \* history: per id, Registers that found it absent since its
                 \* last deletion
    reqs,        \* per handler goroutine: the HTTP request it is serving
    alive,       \* the process is running (glog.Fatal has not been called)
    resp,        \* what the latest step of a handler wrote to its client: the
                 \* request and its responses, NoResp when it wrote nothing
    staleThreshold, \* the threshold pruneServers was started with
    nextTick,    \* the time of the next tick of the pruner's time.Tick
    heap,        \* the backing arrays of the net.IP slices that are shared
    held         \* the Server values a caller of the package holds

repoVars == <<servers, now, lastCall, sinceRemove>>

lockVars == <<mu, calls, ncalls, lastLocked, firstCount>>

httpVars == <<reqs, alive, resp>>

prunerVars == <<staleThreshold, nextTick>>

callerVars == <<heap, held>>

vars == <<repoVars, lockVars, httpVars, prunerVars, callerVars>>

----------------------------------------------------------------------------
(* Bounds of the model *)

MaxTime == 8

NThreads == 2

MaxCalls == 3

MaxLockTime == 1

MaxHttpTime == 1

\* the time to which the clock runs beside a Prune that waits for the lock
MaxCutoffTime == 2

MaxPruneTime == 8

MaxStaleSeconds == 2

MaxArrays == 2

MaxCallerTime == 1

----------------------------------------------------------------------------
(* Characters and strings *)

Digits == <<"0", "1", "2", "3", "4", "5", "6", "7", "8", "9">>

IsDigit(c) == \E d \in 1..10 : Digits[d] = c

DigitVal(c) == (CHOOSE d \in 1..10 : Digits[d] = c) - 1

\* the positions of c in s
Positions(s, c) == {i \in 1..Len(s) : s[i] = c}

\* strings.IndexByte: first position of c in s, 0 when absent
IndexOf(s, c) ==
    LET I == Positions(s, c)
    IN  IF I = {} THEN 0 ELSE CHOOSE i \in I : \A j \in I : i <= j

\* strings.LastIndexByte: last position of c in s, 0 when absent
LastIndexOf(s, c) ==
    LET I == Positions(s, c)
    IN  IF I = {} THEN 0 ELSE CHOOSE i \in I : \A j \in I : i >= j

\* the substring s[from..to] (empty when from > to)
Sub(s, from, to) == IF from > to THEN <<>> ELSE SubSeq(s, from, to)

RECURSIVE ItoaNat(_)
ItoaNat(n) ==
    IF n < 10 THEN <<Digits[n + 1]>>
    ELSE ItoaNat(n \div 10) \o <<Digits[(n % 10) + 1]>>

\* strconv.Itoa
Itoa(n) == IF n < 0 THEN <<"-">> \o ItoaNat(0 - n) ELSE ItoaNat(n)

RECURSIVE DigitsVal(_, _)
DigitsVal(s, acc) ==
    IF s = <<>> THEN acc
    ELSE DigitsVal(Tail(s), acc * 10 + DigitVal(Head(s)))

\* strconv.Atoi: an optional sign followed by one or more decimal digits
Atoi(s) ==
    LET signed == s # <<>> /\ Head(s) \in {"+", "-"}
        body   == IF signed THEN Tail(s) ELSE s
    IN  IF body = <<>> \/ \E i \in 1..Len(body) : ~IsDigit(body[i])
        THEN [ok |-> FALSE, val |-> 0]
        ELSE [ok |-> TRUE,
              val |-> IF signed /\ Head(s) = "-"
                      THEN 0 - DigitsVal(body, 0) ELSE DigitsVal(body, 0)]

----------------------------------------------------------------------------
(* net.IP *)

NilIP == <<>>

V4InV6Prefix == <<0, 0, 0, 0, 0, 0, 0, 0, 0, 0, 255, 255>>

LoopbackV6 == <<0, 0, 0, 0, 0, 0, 0, 0, 0, 0, 0, 0, 0, 0, 0, 1>>

\* net.IP.To4: the 4-byte form, or nil when ip is not an IPv4 address
To4(ip) ==
    IF Len(ip) = 4 THEN ip
    ELSE IF Len(ip) = 16 /\ SubSeq(ip, 1, 12) = V4InV6Prefix THEN SubSeq(ip, 13, 16)
    ELSE NilIP

\* the IP is an IPv4 address: four bytes, or sixteen with the IPv4-in-IPv6
\* prefix
IsIPv4(ip) == Len(ip) = 4 \/ (Len(ip) = 16 /\ SubSeq(ip, 1, 12) = V4InV6Prefix)

\* net.IP.Equal: an IPv4 address and its IPv4-in-IPv6 form are equal
IPEqual(ip, x) ==
    IF Len(ip) = Len(x) THEN ip = x
    ELSE IF Len(ip) = 4 /\ Len(x) = 16
         THEN SubSeq(x, 1, 12) = V4InV6Prefix /\ SubSeq(x, 13, 16) = ip
    ELSE IF Len(ip) = 16 /\ Len(x) = 4
         THEN SubSeq(ip, 1, 12) = V4InV6Prefix /\ SubSeq(ip, 13, 16) = x
    ELSE FALSE

\* a field parser that stops short of 255
ParseOctetBelow255(s) ==
    IF Len(s) \in 1..3 /\ (\A i \in 1..Len(s) : IsDigit(s[i]))
       /\ (Len(s) = 1 \/ s[1] # "0") /\ DigitsVal(s, 0) < 255
    THEN DigitsVal(s, 0) ELSE -1

\* one dotted-decimal field: 1 to 3 digits, no leading zero, at most 255
ParseOctet(s) ==
    IF Len(s) \in 1..3 /\ (\A i \in 1..Len(s) : IsDigit(s[i]))
       /\ (Len(s) = 1 \/ s[1] # "0") /\ DigitsVal(s, 0) <= 255
    THEN DigitsVal(s, 0) ELSE -1

RECURSIVE SplitDots(_)
SplitDots(s) ==
    LET i == IndexOf(s, ".")
    IN  IF i = 0 THEN <<s>>
        ELSE <<Sub(s, 1, i - 1)>> \o SplitDots(Sub(s, i + 1, Len(s)))

\* the IPv4 branch of net.ParseIP, result in 4-byte form or nil
ParseIPv4(s) ==
    LET f == SplitDots(s)
    IN  IF Len(f) = 4 /\ \A i \in 1..4 : ParseOctet(f[i]) >= 0
        THEN [i \in 1..4 |-> ParseOctet(f[i])]
        ELSE NilIP

\* net.ParseIP: dotted IPv4 (returned in 16-byte form), and of the IPv6
\* syntax the forms "::ffff:a.b.c.d" and "::1"; nil otherwise
ParseIP(s) ==
    IF IndexOf(s, ":") = 0
    THEN IF ParseIPv4(s) = NilIP THEN NilIP ELSE V4InV6Prefix \o ParseIPv4(s)
    ELSE IF s = <<":", ":", "1">> THEN LoopbackV6
    ELSE IF Len(s) > 7 /\ SubSeq(s, 1, 7) = <<":", ":", "f", "f", "f", "f", ":">>
              /\ ParseIPv4(Sub(s, 8, Len(s))) # NilIP
         THEN V4InV6Prefix \o ParseIPv4(Sub(s, 8, Len(s)))
    ELSE NilIP

\* net.IP.String
IPString(ip) ==
    LET p == To4(ip)
    IN  IF Len(ip) = 0 THEN <<"<", "n", "i", "l", ">">>
        ELSE IF p # NilIP
             THEN Itoa(p[1]) \o <<".">> \o Itoa(p[2]) \o <<".">>
                    \o Itoa(p[3]) \o <<".">> \o Itoa(p[4])
        ELSE IF ip = LoopbackV6 THEN <<":", ":", "1">>
        ELSE <<"?">>

----------------------------------------------------------------------------
(* srvrepo.ServerAddress *)

\* net.SplitHostPort
SplitHostPort(s) ==
    LET i    == LastIndexOf(s, ":")
        fail == [ok |-> FALSE, host |-> <<>>, port |-> <<>>]
    IN  IF i = 0 THEN fail
        ELSE IF s[1] = "["
        THEN LET end == IndexOf(s, "]")
             IN  IF end = 0 \/ end + 1 # i THEN fail
                 ELSE IF IndexOf(Sub(s, 2, Len(s)), "[") # 0
                         \/ IndexOf(Sub(s, end + 1, Len(s)), "]") # 0 THEN fail
                 ELSE [ok |-> TRUE, host |-> Sub(s, 2, end - 1),
                       port |-> Sub(s, i + 1, Len(s))]
        ELSE IF IndexOf(Sub(s, 1, i - 1), ":") # 0 THEN fail
        ELSE IF IndexOf(s, "[") # 0 \/ IndexOf(s, "]") # 0 THEN fail
        ELSE [ok |-> TRUE, host |-> Sub(s, 1, i - 1), port |-> Sub(s, i + 1, Len(s))]

\* net.JoinHostPort
JoinHostPort(host, port) ==
    IF Positions(host, ":") # {} THEN <<"[">> \o host \o <<"]", ":">> \o port
    ELSE host \o <<":">> \o port

ZeroAddress == [IP |-> NilIP, Port |-> 0]

\* a parser that also rejects the ports Validate rejects
ParseServerAddressInRange(s) ==
    LET hp == SplitHostPort(s)
    IN  IF ~hp.ok THEN [ok |-> FALSE, addr |-> ZeroAddress]
        ELSE IF ~Atoi(hp.port).ok \/ Atoi(hp.port).val < 1024 \/ Atoi(hp.port).val > 65535
        THEN [ok |-> FALSE, addr |-> ZeroAddress]
        ELSE [ok |-> TRUE,
              addr |-> [IP |-> ParseIP(hp.host), Port |-> Atoi(hp.port).val]]

ParseServerAddress(s) ==
    LET hp == SplitHostPort(s)
    IN  IF ~hp.ok THEN [ok |-> FALSE, addr |-> ZeroAddress]
        ELSE IF ~Atoi(hp.port).ok THEN [ok |-> FALSE, addr |-> ZeroAddress]
        ELSE [ok |-> TRUE,
              addr |-> [IP |-> ParseIP(hp.host), Port |-> Atoi(hp.port).val]]

AddressString(a) == JoinHostPort(IPString(a.IP), Itoa(a.Port))

----------------------------------------------------------------------------
(* srvrepo.Server and its validation *)

portRangeMin == 1024

portRangeMax == 65535

nameLengthMin == 3

nameLengthMax == 32

\* a Validate that looks at the port before the IP
AddressValidatePortFirst(a) ==
    IF a.Port < portRangeMin \/ a.Port > portRangeMax THEN "port is not within the valid port range"
    ELSE IF To4(a.IP) = NilIP THEN "IP is not a valid IPv4 address"
    ELSE ""

\* ServerAddress.Validate: "" when valid, else the error
AddressValidate(a) ==
    IF To4(a.IP) = NilIP THEN "IP is not a valid IPv4 address"
    ELSE IF a.Port < portRangeMin \/ a.Port > portRangeMax THEN "port is not within the valid port range"
    ELSE ""

IsSpace(c) == c \in {" ", "\t", "\n", "\r"}

RECURSIVE TrimLeft(_)
TrimLeft(s) == IF s # <<>> /\ IsSpace(Head(s)) THEN TrimLeft(Tail(s)) ELSE s

RECURSIVE TrimRight(_)
TrimRight(s) ==
    IF s # <<>> /\ IsSpace(s[Len(s)]) THEN TrimRight(Sub(s, 1, Len(s) - 1)) ELSE s

\* strings.TrimSpace
TrimSpace(s) == TrimRight(TrimLeft(s))

ServerAddressOf(srv) == [IP |-> srv.IP, Port |-> srv.Port]

\* a Validate that measures the trimmed name and leaves the name as it came
ServerValidateKeepsName(srv) ==
    IF AddressValidate(ServerAddressOf(srv)) # ""
    THEN [err |-> AddressValidate(ServerAddressOf(srv)), srv |-> srv]
    ELSE [err |-> IF Len(TrimSpace(srv.Name)) < nameLengthMin
                     \/ Len(TrimSpace(srv.Name)) > nameLengthMax
                  THEN "name length must be within range" ELSE "",
          srv |-> srv]

\* Server.Validate: the error ("" when valid) and the server with its name
\* trimmed, which the method does in place once the address is valid
ServerValidate(srv) ==
    IF AddressValidate(ServerAddressOf(srv)) # ""
    THEN [err |-> AddressValidate(ServerAddressOf(srv)), srv |-> srv]
    ELSE LET t == [srv EXCEPT !.Name = TrimSpace(srv.Name)]
         IN  [err |-> IF Len(t.Name) < nameLengthMin \/ Len(t.Name) > nameLengthMax
                      THEN "name length must be within range" ELSE "",
              srv |-> t]

\* Server.Seen
Seen(srv, t) == [srv EXCEPT !.LastSeen = t]

\* a mis-keyed identity: the name takes part in the key
ServerIDWithName(srv) == AddressString(ServerAddressOf(srv)) \o <<"/">> \o srv.Name

\* an identity keyed on the IP alone
ServerIDHostOnly(srv) == IPString(srv.IP)

\* Server.ID
ServerID(srv) == AddressString(ServerAddressOf(srv))

----------------------------------------------------------------------------
(* srvrepo.ServerRepository: the map and the bodies of its methods, each    *)
(* as the effect of the whole critical section                             *)

EmptyRepository == <<>>

\* a write that leaves an entry already stored under the key
MapPutIfAbsent(m, k, v) == m @@ (k :> v)

\* m[k] = v
MapPut(m, k, v) == (k :> v) @@ m

MapDelete(m, k) == [x \in DOMAIN m \ {k} |-> m[x]]

\* a Has that finds nothing
HasNothing(m, id) == FALSE

Has(m, id) == id \in DOMAIN m

\* List: one element per key; the order is that of Go's map iteration, which
\* no claim depends on
List(m) ==
    LET n  == Cardinality(DOMAIN m)
        ks == CHOOSE f \in [1..n -> DOMAIN m] : \A i, j \in 1..n : i # j => f[i] # f[j]
    IN  [i \in 1..n |-> m[ks[i]]]

\* Register that reports the presence of the key after the write
RegisterExistsAfter(m, srv) ==
    LET id == ServerID(srv)
    IN  [servers |-> MapPut(m, id, srv), existed |-> Has(MapPut(m, id, srv), id),
         err |-> ""]

\* Register: the map after the call, alreadyExists, and err ("" is nil), which
\* is declared and never assigned
Register(m, srv) ==
    LET id == ServerID(srv)
    IN  [servers |-> MapPut(m, id, srv), existed |-> Has(m, id), err |-> ""]

\* Remove that reports the entry and leaves it in the map
RemoveKeeps(m, id) == [servers |-> m, existed |-> Has(m, id)]

Remove(m, id) == [servers |-> MapDelete(m, id), existed |-> Has(m, id)]

\* a cutoff that forgets the threshold
CutoffNow(t, threshold) == t

\* the cutoff Prune computes from time.Now() before it takes the lock
Cutoff(t, threshold) == t - threshold

\* Prune that also drops the entries seen exactly at the cutoff
PruneAtOrBefore(m, cutoff) ==
    [k \in {x \in DOMAIN m : ~(m[x].LastSeen <= cutoff)} |-> m[k]]

\* Prune: LastSeen.Before(cutoff) is strict
Prune(m, cutoff) ==
    [k \in {x \in DOMAIN m : ~(m[x].LastSeen < cutoff)} |-> m[k]]

----------------------------------------------------------------------------
(* The repository driven through its interface, one call at a time          *)

IP5 == V4InV6Prefix \o <<10, 0, 0, 5>>

IP6 == V4InV6Prefix \o <<10, 0, 0, 6>>

RepoAddrs ==
    { [IP |-> IP5, Port |-> 30000], [IP |-> IP5, Port |-> 30001],
      [IP |-> IP6, Port |-> 30000] }

NameMyServer == <<"M", "y", " ", "S", "e", "r", "v", "e", "r">>

NameRenamed == <<"R", "e", "n", "a", "m", "e", "d">>

Payloads ==
    { [Name |-> NameMyServer, GameVersion |-> 3, IsJoinable |-> TRUE],
      [Name |-> NameRenamed, GameVersion |-> 4, IsJoinable |-> FALSE] }

Thresholds == {0, 2, 4}

\* the lock-level state of a repository no goroutine is calling
LockIdle ==
    /\ mu = [w |-> 0, r |-> {}]
    /\ calls = [t \in 1..NThreads |-> [pc |-> "idle"]]
    /\ ncalls = 0
    /\ lastLocked = <<>>
    /\ firstCount = <<>>

Slots == {1, 2}

IdleReq == [pc |-> "idle"]

NoResp == [handler |-> "none", rawid |-> <<>>, remote |-> <<>>, name |-> <<>>,
           out |-> <<>>, committed |-> FALSE, existed |-> FALSE, reply |-> <<>>]

\* no request is being served, none has been
HttpIdle ==
    /\ reqs = [i \in Slots |-> IdleReq]
    /\ alive = TRUE
    /\ resp = NoResp

\* the pruner is not part of the run
PrunerIdle ==
    /\ staleThreshold = 0
    /\ nextTick = <<>>

\* no caller holds a Server value
CallerIdle ==
    /\ heap = <<>>
    /\ held = {}

MkServer(a, p, t) ==
    [IP |-> a.IP, Port |-> a.Port, Name |-> p.Name, GameVersion |-> p.GameVersion,
     IsJoinable |-> p.IsJoinable, LastSeen |-> t]

RepoInit ==
    /\ servers = EmptyRepository
    /\ now = 0
    /\ lastCall = [op |-> "none"]
    /\ sinceRemove = {}
    /\ LockIdle
    /\ HttpIdle
    /\ PrunerIdle
    /\ CallerIdle

RepoRegister(a, p) ==
    \E r \in {Register(servers, MkServer(a, p, now))} :
        /\ servers' = r.servers
        /\ lastCall' = [op |-> "Register", srv |-> MkServer(a, p, now),
                        existed |-> r.existed, err |-> r.err]
        /\ sinceRemove' = sinceRemove \cup (DOMAIN r.servers \ DOMAIN servers)
        /\ UNCHANGED <<now, lockVars, httpVars, prunerVars, callerVars>>

RepoRemove(a) ==
    \E id \in {AddressString(a)} :
        \E r \in {Remove(servers, id)} :
            /\ servers' = r.servers
            /\ lastCall' = [op |-> "Remove", id |-> id, existed |-> r.existed,
                            repeated |-> lastCall.op = "Remove" /\ lastCall.id = id]
            /\ sinceRemove' = sinceRemove \ {id}
            /\ UNCHANGED <<now, lockVars, httpVars, prunerVars, callerVars>>

RepoPrune(threshold) ==
    /\ servers' = Prune(servers, Cutoff(now, threshold))
    /\ lastCall' = [op |-> "Prune", threshold |-> threshold]
    /\ UNCHANGED <<now, sinceRemove, lockVars, httpVars, prunerVars, callerVars>>

RepoList ==
    /\ lastCall' = [op |-> "List", list |-> List(servers)]
    /\ UNCHANGED <<servers, now, sinceRemove, lockVars, httpVars, prunerVars, callerVars>>

RepoHas(a) ==
    \E id \in {AddressString(a)} :
        /\ lastCall' = [op |-> "Has", id |-> id, existed |-> Has(servers, id)]
        /\ UNCHANGED <<servers, now, sinceRemove, lockVars, httpVars, prunerVars, callerVars>>

RepoTick ==
    /\ now < MaxTime
    /\ now' = now + 1
    /\ lastCall' = [op |-> "Tick"]
    /\ UNCHANGED <<servers, sinceRemove, lockVars, httpVars, prunerVars, callerVars>>

RepoNext ==
    \/ \E a \in RepoAddrs, p \in Payloads : RepoRegister(a, p)
    \/ \E a \in RepoAddrs : RepoRemove(a)
    \/ \E threshold \in Thresholds : RepoPrune(threshold)
    \/ RepoList
    \/ \E a \in RepoAddrs : RepoHas(a)
    \/ RepoTick

SpecRepo == RepoInit /\ [][RepoNext]_vars

----------------------------------------------------------------------------
(* Properties of the repository interface (SpecRepo) *)

\* the identity of an entry: the canonical ip:port string of its address
Identity(srv) == AddressString(ServerAddressOf(srv))

\* C1: the store never holds two entries with the same identity; right after
\* a Register exactly one entry has the registered identity, and a List
\* result never has two elements with the same identity.
C1_OneEntryPerIdentity ==
    /\ \A k1, k2 \in DOMAIN servers :
          k1 # k2 => Identity(servers[k1]) # Identity(servers[k2])
    /\ lastCall.op = "Register" =>
          Cardinality({k \in DOMAIN servers :
                          Identity(servers[k]) = Identity(lastCall.srv)}) = 1
    /\ lastCall.op = "List" =>
          /\ Len(lastCall.list) = Cardinality(DOMAIN servers)
          /\ \A i, j \in 1..Len(lastCall.list) :
                i # j => Identity(lastCall.list[i]) # Identity(lastCall.list[j])

\* a Register of an identity already present has returned, the store holds
\* another identity as well
C1_Witness ==
    /\ lastCall.op = "Register"
    /\ lastCall.existed
    /\ \E k \in DOMAIN servers : servers[k] = lastCall.srv /\ servers[k].Name = NameRenamed
    /\ Cardinality(DOMAIN servers) >= 2

\* C2 as stated: Register returns true iff the identity was stored right
\* before the call, and it returns true whenever the identity was registered
\* before with no Remove of it since.
C2_TrueUnlessRemoved ==
    [][lastCall'.op = "Register" =>
          /\ lastCall'.existed =
                (\E k \in DOMAIN servers : Identity(servers[k]) = Identity(lastCall'.srv))
          /\ Identity(lastCall'.srv) \in sinceRemove => lastCall'.existed]_vars

\* C2 (amended): Register returns true iff the identity was stored right
\* before the call, and a stored identity leaves the store only in a Remove
\* or a Prune; so after the first Register of a fresh identity every later
\* one returns true until a Remove or a Prune deletes the entry.
C2_ExistedFlag ==
    [][/\ lastCall'.op = "Register" =>
             lastCall'.existed =
                (\E k \in DOMAIN servers : Identity(servers[k]) = Identity(lastCall'.srv))
       /\ \A k \in DOMAIN servers :
             k \notin DOMAIN servers' => lastCall'.op \in {"Remove", "Prune"}]_vars

\* a Register returned true for an identity registered at an earlier time,
\* and some other identity registered before is gone without a Remove
C2_Witness ==
    /\ lastCall.op = "Register"
    /\ lastCall.existed
    /\ now > 0
    /\ sinceRemove \ DOMAIN servers # {}

\* C9: a Prune(threshold) called at time now leaves exactly the entries whose
\* LastSeen is not before now - threshold, each unchanged.
C9_PruneCorrect ==
    [][lastCall'.op = "Prune" =>
          /\ DOMAIN servers' =
                {k \in DOMAIN servers : servers[k].LastSeen >= now - lastCall'.threshold}
          /\ \A k \in DOMAIN servers' : servers'[k] = servers[k]]_vars

\* Prune(4) at time 8 = 2 * 4 has returned: an entry seen at the cutoff 4 and
\* one seen at 7 = 8 - 4/4 remain, an entry registered before is gone
C9_Witness ==
    /\ lastCall.op = "Prune"
    /\ lastCall.threshold = 4
    /\ now = 8
    /\ {servers[k].LastSeen : k \in DOMAIN servers} = {4, 7}
    /\ sinceRemove \ DOMAIN servers # {}

\* C11: Remove(id) returns true iff an entry with that identity was stored
\* right before the call, Has(id) is false afterwards and no other entry is
\* touched; a second Remove(id) right after the first returns false and
\* leaves the store as the first left it.
C11_RemoveIdempotent ==
    [][lastCall'.op = "Remove" =>
          /\ lastCall'.existed = (lastCall'.id \in DOMAIN servers)
          /\ ~Has(servers', lastCall'.id)
          /\ DOMAIN servers' = DOMAIN servers \ {lastCall'.id}
          /\ \A k \in DOMAIN servers' : servers'[k] = servers[k]
          /\ lastCall'.repeated = (lastCall.op = "Remove" /\ lastCall.id = lastCall'.id)
          /\ lastCall'.repeated => ~lastCall'.existed /\ servers' = servers]_vars

\* a Remove of a stored identity returned true, then the same Remove was
\* called again and returned false; another entry is still stored
C11_Witness ==
    /\ lastCall.op = "Remove"
    /\ ~lastCall.existed
    /\ lastCall.repeated
    /\ servers # EmptyRepository

\* C25: every entry is stored under the ip:port string of its own address
\* (an entry that a step stores or changes is under that string, and the
\* store starts empty); a
\* Register adds or replaces the entry of that string only, a Remove deletes
\* that of its string only, and a Prune keeps or drops each entry by that
\* entry's own LastSeen; so two addresses with one IP and two ports are two
\* entries, and none of the three calls on one of them touches the other.
C25_KeyIsAddress ==
    [][/\ \A k \in DOMAIN servers' :
             (k \notin DOMAIN servers \/ servers'[k] # servers[k]) =>
                k = Identity(servers'[k])
       /\ lastCall'.op = "Register" =>
             LET id == Identity(lastCall'.srv)
             IN  /\ DOMAIN servers' = DOMAIN servers \cup {id}
                 /\ \A k \in DOMAIN servers \ {id} : servers'[k] = servers[k]
       /\ lastCall'.op = "Remove" =>
             \A k \in DOMAIN servers \ {lastCall'.id} :
                /\ k \in DOMAIN servers'
                /\ servers'[k] = servers[k]
       /\ lastCall'.op = "Prune" =>
             \A k \in DOMAIN servers :
                /\ (k \in DOMAIN servers') =
                      (servers[k].LastSeen >= now - lastCall'.threshold)
                /\ k \in DOMAIN servers' => servers'[k] = servers[k]]_vars

\* 10.0.0.5:30000 and 10.0.0.5:30001 were both stored, the first has been
\* removed and the second is still there
C25_Witness ==
    /\ lastCall.op = "Remove"
    /\ lastCall.existed
    /\ lastCall.id = AddressString([IP |-> IP5, Port |-> 30000])
    /\ Has(servers, AddressString([IP |-> IP5, Port |-> 30001]))

\* C29: right after Register(e) returns, the store maps the identity of e to
\* an entry equal to e in every field, the store has the keys it had and
\* that identity, every other entry is as it was, and the error is nil.
C29_RegisterApplies ==
    [][lastCall'.op = "Register" =>
          LET id == Identity(lastCall'.srv)
          IN  /\ id \in DOMAIN servers'
              /\ servers'[id] = lastCall'.srv
              /\ \A k \in DOMAIN servers' \ {id} :
                    k \in DOMAIN servers /\ servers'[k] = servers[k]
              /\ \A k \in DOMAIN servers : k \in DOMAIN servers'
              /\ lastCall'.err = ""]_vars

\* a Register has replaced an entry stored at an earlier time by one with
\* another name, version, joinable flag and LastSeen; another entry is stored
C29_Witness ==
    /\ lastCall.op = "Register"
    /\ lastCall.existed
    /\ lastCall.srv.LastSeen > 0
    /\ lastCall.srv.Name = NameRenamed
    /\ lastCall.srv.GameVersion = 4
    /\ ~lastCall.srv.IsJoinable
    /\ servers[Identity(lastCall.srv)] = lastCall.srv
    /\ \E k \in DOMAIN servers : servers[k].LastSeen = 0 /\ servers[k].Name = NameMyServer

\* C30: the store is empty before the first call; List, Has and the passing
\* of time leave it as it is; Has(id) returns whether id is stored; an entry
\* leaves the store only in a Remove of its identity or in a Prune that finds
\* its LastSeen before the cutoff, and a stored entry is changed only by a
\* Register of its identity.
C30_OnlyMutators ==
    [][/\ lastCall.op = "none" => servers = EmptyRepository
       /\ lastCall'.op \in {"List", "Has", "Tick"} => servers' = servers
       /\ lastCall'.op = "Has" =>
             lastCall'.existed = (\E k \in DOMAIN servers : k = lastCall'.id)
       /\ \A k \in DOMAIN servers :
             /\ k \notin DOMAIN servers' =>
                   \/ lastCall'.op = "Remove" /\ lastCall'.id = k
                   \/ /\ lastCall'.op = "Prune"
                      /\ servers[k].LastSeen < now - lastCall'.threshold
             /\ (k \in DOMAIN servers' /\ servers'[k] # servers[k]) =>
                   lastCall'.op = "Register" /\ Identity(lastCall'.srv) = k]_vars

\* Has finds an entry registered at an earlier time, after a Prune that
\* deleted another entry and left this one
C30_Witness ==
    /\ lastCall.op = "Has"
    /\ lastCall.existed
    /\ servers[lastCall.id].LastSeen < now
    /\ sinceRemove \ DOMAIN servers # {}

----------------------------------------------------------------------------
(* The repository under concurrent callers: every method is split at its    *)
(* lock operations and at each access to the map.  A goroutine's call is   *)
(* [pc, op, id, srv, cutoff, found, visited, list, contended].             *)

Threads == 1..NThreads

LockAddrs == {[IP |-> IP5, Port |-> 30000], [IP |-> IP5, Port |-> 30001]}

\* the registrations the goroutines make: two descriptions of one address,
\* one of another
LockRegistrations ==
    {<<a, p>> \in LockAddrs \X Payloads : a.Port = 30000 \/ p.Name = NameMyServer}

\* the address the goroutines remove and look up
LockTargets == {a \in LockAddrs : a.Port = 30000}

LockThresholds == {1}

NoServer == [Name |-> <<>>]

IdleCall == [pc |-> "idle"]

\* pre and intact are history: pre, whether the call could expect to find
\* (Remove) or to miss (Register) its identity when it was made; intact, that
\* no other call has changed the presence of that identity since
NewCall(op, pc, id, srv, cutoff) ==
    [pc |-> pc, op |-> op, id |-> id, srv |-> srv, cutoff |-> cutoff,
     found |-> FALSE, visited |-> {}, list |-> <<>>, contended |-> FALSE,
     pre |-> FALSE, intact |-> TRUE]

\* the calls of the other goroutines learn that goroutine t has stored
\* (present) or deleted (~present) the identities ids
Disturb(t, ids, present) ==
    [u \in Threads |->
        IF u # t /\ calls[u].pc # "idle" /\ calls[u].id \in ids
           /\ calls[u].op = (IF present THEN "Register" ELSE "Remove")
        THEN [calls[u] EXCEPT !.intact = FALSE]
        ELSE calls[u]]

\* a write lock that is granted whoever holds the mutex
CanLockAlways(m) == TRUE

\* sync.RWMutex.Lock returns once there is no writer and no reader
CanLock(m) == m.w = 0 /\ m.r = {}

\* a read lock that is granted beside a writer
CanRLockAlways(m) == TRUE

\* sync.RWMutex.RLock returns once there is no writer
CanRLock(m) == m.w = 0

Count(f, k) == IF k \in DOMAIN f THEN f[k] ELSE 0

\* another goroutine is inside a Register call for the same id
OtherRegistering(t, id) ==
    \E u \in Threads \ {t} :
        calls[u].pc # "idle" /\ calls[u].op = "Register" /\ calls[u].id = id

LockInit ==
    /\ servers = EmptyRepository
    /\ now = 0
    /\ lastCall = [op |-> "none"]
    /\ sinceRemove = {}
    /\ LockIdle
    /\ HttpIdle
    /\ PrunerIdle
    /\ CallerIdle

\* goroutine t is idle and every goroutine before it is in a call: idle
\* goroutines carry no state, so the next call is made by the first of them
FirstIdle(t) ==
    /\ calls[t].pc = "idle"
    /\ \A u \in 1..(t - 1) : calls[u].pc # "idle"

\* Register up to the lock: id := srv.ID()
CallRegister(t, a, p) ==
    /\ alive
    /\ FirstIdle(t)
    /\ ncalls < MaxCalls
    /\ \E srv \in {MkServer(a, p, now)} :
          \E id \in {ServerID(srv)} :
              calls' = [calls EXCEPT ![t] =
                  [NewCall("Register", "lock", id, srv, 0)
                      EXCEPT !.contended = OtherRegistering(t, id),
                             !.pre = ~Has(servers, id)]]
    /\ ncalls' = ncalls + 1
    /\ UNCHANGED <<repoVars, mu, lastLocked, firstCount, httpVars, prunerVars, callerVars>>

CallRemove(t, a) ==
    /\ alive
    /\ FirstIdle(t)
    /\ ncalls < MaxCalls
    /\ \E id \in {AddressString(a)} :
          calls' = [calls EXCEPT ![t] =
                       [NewCall("Remove", "lock", id, NoServer, 0)
                           EXCEPT !.pre = Has(servers, id)]]
    /\ ncalls' = ncalls + 1
    /\ UNCHANGED <<repoVars, mu, lastLocked, firstCount, httpVars, prunerVars, callerVars>>

\* Prune up to the lock: cutoff := time.Now().Add(-threshold)
CallPrune(t, threshold) ==
    /\ alive
    /\ FirstIdle(t)
    /\ ncalls < MaxCalls
    /\ calls' = [calls EXCEPT ![t] =
                    NewCall("Prune", "lock", <<>>, NoServer, Cutoff(now, threshold))]
    /\ ncalls' = ncalls + 1
    /\ UNCHANGED <<repoVars, mu, lastLocked, firstCount, httpVars, prunerVars, callerVars>>

CallHas(t, a) ==
    /\ alive
    /\ FirstIdle(t)
    /\ ncalls < MaxCalls
    /\ calls' = [calls EXCEPT ![t] =
                    NewCall("Has", "rlock", AddressString(a), NoServer, 0)]
    /\ ncalls' = ncalls + 1
    /\ UNCHANGED <<repoVars, mu, lastLocked, firstCount, httpVars, prunerVars, callerVars>>

CallList(t) ==
    /\ alive
    /\ FirstIdle(t)
    /\ ncalls < MaxCalls
    /\ calls' = [calls EXCEPT ![t] = NewCall("List", "rlock", <<>>, NoServer, 0)]
    /\ ncalls' = ncalls + 1
    /\ UNCHANGED <<repoVars, mu, lastLocked, firstCount, httpVars, prunerVars, callerVars>>

\* r.mu.Lock()
AcquireLock(t) ==
    /\ alive
    /\ calls[t].pc = "lock"
    /\ CanLock(mu)
    /\ mu' = [mu EXCEPT !.w = t]
    /\ calls' = [calls EXCEPT ![t].pc = IF calls[t].op = "Prune" THEN "sweep" ELSE "read",
                              ![t].contended = @ \/ (calls[t].op = "Register"
                                                     /\ OtherRegistering(t, calls[t].id))]
    /\ lastLocked' = IF calls[t].op = "Register"
                     THEN MapPut(lastLocked, calls[t].id, calls[t].srv)
                     ELSE lastLocked
    /\ UNCHANGED <<repoVars, ncalls, firstCount, httpVars, prunerVars, callerVars>>

\* a read lock that is not taken
AcquireRLockFree(t) ==
    /\ alive
    /\ calls[t].pc = "rlock"
    /\ UNCHANGED mu
    /\ calls' = [calls EXCEPT ![t].pc = IF calls[t].op = "List" THEN "iter" ELSE "read"]
    /\ UNCHANGED <<repoVars, ncalls, lastLocked, firstCount, httpVars, prunerVars, callerVars>>

\* r.mu.RLock()
AcquireRLock(t) ==
    /\ alive
    /\ calls[t].pc = "rlock"
    /\ CanRLock(mu)
    /\ mu' = [mu EXCEPT !.r = @ \cup {t}]
    /\ calls' = [calls EXCEPT ![t].pc = IF calls[t].op = "List" THEN "iter" ELSE "read"]
    /\ UNCHANGED <<repoVars, ncalls, lastLocked, firstCount, httpVars, prunerVars, callerVars>>

\* _, alreadyExists = r.servers[id]
ReadExists(t) ==
    /\ alive
    /\ calls[t].pc = "read"
    /\ \E found \in {Has(servers, calls[t].id)} :
          /\ calls' = [calls EXCEPT ![t].found = found,
                                    ![t].pc = CASE calls[t].op = "Register" -> "write"
                                                [] calls[t].op = "Remove" -> "delete"
                                                [] OTHER -> "runlock"]
          /\ firstCount' = IF calls[t].op = "Register" /\ ~found
                           THEN MapPut(firstCount, calls[t].id,
                                       Count(firstCount, calls[t].id) + 1)
                           ELSE firstCount
    /\ UNCHANGED <<repoVars, mu, ncalls, lastLocked, httpVars, prunerVars, callerVars>>

\* r.servers[id] = srv
WriteEntry(t) ==
    /\ alive
    /\ calls[t].pc = "write"
    /\ servers' = MapPut(servers, calls[t].id, calls[t].srv)
    /\ calls' = [Disturb(t, {calls[t].id}, TRUE) EXCEPT ![t].pc = "unlock"]
    /\ UNCHANGED <<now, lastCall, sinceRemove, mu, ncalls, lastLocked, firstCount,
                   httpVars, prunerVars, callerVars>>

\* a delete that leaves the entry in the map
DeleteEntryKeeps(t) ==
    /\ alive
    /\ calls[t].pc = "delete"
    /\ servers' = servers
    /\ calls' = [Disturb(t, {calls[t].id}, FALSE) EXCEPT ![t].pc = "unlock"]
    /\ firstCount' = MapDelete(firstCount, calls[t].id)
    /\ lastLocked' = MapDelete(lastLocked, calls[t].id)
    /\ UNCHANGED <<now, lastCall, sinceRemove, mu, ncalls, httpVars, prunerVars, callerVars>>

\* delete(r.servers, id)
DeleteEntry(t) ==
    /\ alive
    /\ calls[t].pc = "delete"
    /\ servers' = MapDelete(servers, calls[t].id)
    /\ calls' = [Disturb(t, {calls[t].id}, FALSE) EXCEPT ![t].pc = "unlock"]
    /\ firstCount' = MapDelete(firstCount, calls[t].id)
    /\ lastLocked' = MapDelete(lastLocked, calls[t].id)
    /\ UNCHANGED <<now, lastCall, sinceRemove, mu, ncalls, httpVars, prunerVars, callerVars>>

\* a Prune that computes its cutoff once it holds the lock
SweepAtNow(t) ==
    /\ alive
    /\ calls[t].pc = "sweep"
    /\ \E th \in LockThresholds :
          /\ servers' = Prune(servers, Cutoff(now, th))
          /\ calls' = [Disturb(t, DOMAIN servers \ DOMAIN Prune(servers, Cutoff(now, th)),
                               FALSE)
                          EXCEPT ![t].pc = "unlock"]
    /\ firstCount' = [k \in DOMAIN firstCount \ (DOMAIN servers \ DOMAIN servers')
                         |-> firstCount[k]]
    /\ lastLocked' = [k \in DOMAIN lastLocked \ (DOMAIN servers \ DOMAIN servers')
                         |-> lastLocked[k]]
    /\ UNCHANGED <<now, lastCall, sinceRemove, mu, ncalls, httpVars, prunerVars, callerVars>>

\* the loop of Prune over the map
Sweep(t) ==
    /\ alive
    /\ calls[t].pc = "sweep"
    /\ servers' = Prune(servers, calls[t].cutoff)
    /\ calls' = [Disturb(t, DOMAIN servers \ DOMAIN Prune(servers, calls[t].cutoff), FALSE)
                    EXCEPT ![t].pc = "unlock"]
    /\ firstCount' = [k \in DOMAIN firstCount \ (DOMAIN servers \ DOMAIN servers')
                         |-> firstCount[k]]
    /\ lastLocked' = [k \in DOMAIN lastLocked \ (DOMAIN servers \ DOMAIN servers')
                         |-> lastLocked[k]]
    /\ UNCHANGED <<now, lastCall, sinceRemove, mu, ncalls, httpVars, prunerVars, callerVars>>

\* one iteration of the loop of List: serverList = append(serverList, srv)
IterNext(t) ==
    /\ alive
    /\ calls[t].pc = "iter"
    /\ \E k \in DOMAIN servers \ calls[t].visited :
          calls' = [calls EXCEPT ![t].visited = @ \cup {k},
                                 ![t].list = Append(@, servers[k])]
    /\ UNCHANGED <<repoVars, mu, ncalls, lastLocked, firstCount, httpVars, prunerVars, callerVars>>

IterDone(t) ==
    /\ alive
    /\ calls[t].pc = "iter"
    /\ DOMAIN servers \ calls[t].visited = {}
    /\ calls' = [calls EXCEPT ![t].pc = "runlock"]
    /\ UNCHANGED <<repoVars, mu, ncalls, lastLocked, firstCount, httpVars, prunerVars, callerVars>>

\* the deferred r.mu.Unlock() and the return; what the call returns is
\* calls[t].found
Unlock(t) ==
    /\ alive
    /\ calls[t].pc = "unlock"
    /\ mu' = [mu EXCEPT !.w = 0]
    /\ calls' = [calls EXCEPT ![t] = IdleCall]
    /\ UNCHANGED <<repoVars, ncalls, lastLocked, firstCount, httpVars, prunerVars, callerVars>>

\* the deferred r.mu.RUnlock() and the return; what the call returns is
\* calls[t].found (Has) or calls[t].list (List)
RUnlock(t) ==
    /\ alive
    /\ calls[t].pc = "runlock"
    /\ mu' = [mu EXCEPT !.r = @ \ {t}]
    /\ calls' = [calls EXCEPT ![t] = IdleCall]
    /\ UNCHANGED <<repoVars, ncalls, lastLocked, firstCount, httpVars, prunerVars, callerVars>>

LockTick ==
    /\ alive
    /\ now < MaxLockTime
    /\ now' = now + 1
    /\ UNCHANGED <<servers, lastCall, sinceRemove, lockVars, httpVars, prunerVars, callerVars>>

LockNext ==
    \/ \E t \in Threads, x \in LockRegistrations : CallRegister(t, x[1], x[2])
    \/ \E t \in Threads, a \in LockTargets : CallRemove(t, a)
    \/ \E t \in Threads, threshold \in LockThresholds : CallPrune(t, threshold)
    \/ \E t \in Threads, a \in LockTargets : CallHas(t, a)
    \/ \E t \in Threads : CallList(t)
    \/ \E t \in Threads : AcquireLock(t)
    \/ \E t \in Threads : AcquireRLock(t)
    \/ \E t \in Threads : ReadExists(t)
    \/ \E t \in Threads : WriteEntry(t)
    \/ \E t \in Threads : DeleteEntry(t)
    \/ \E t \in Threads : Sweep(t)
    \/ \E t \in Threads : IterNext(t)
    \/ \E t \in Threads : IterDone(t)
    \/ \E t \in Threads : Unlock(t)
    \/ \E t \in Threads : RUnlock(t)
    \/ LockTick

SpecLock == LockInit /\ [][LockNext]_vars

AllIdle == \A t \in Threads : calls[t].pc = "idle"

\* C3: of the Register calls that run since an identity was last absent, at
\* most one finds it absent; when all calls have returned, a stored identity
\* has exactly one entry, that entry is the server of the Register that took
\* the lock last, and exactly one Register found the identity absent.
C3_ConcurrentRegister ==
    /\ \A id \in DOMAIN firstCount : firstCount[id] <= 1
    /\ AllIdle =>
          \A k \in DOMAIN servers :
              /\ Cardinality({x \in DOMAIN servers :
                                 Identity(servers[x]) = Identity(servers[k])}) = 1
              /\ k \in DOMAIN lastLocked
              /\ servers[k] = lastLocked[k]
              /\ Count(firstCount, k) = 1

\* two Register calls for one identity with different fields overlapped; the
\* one that locked first has returned, the one that locked last found the
\* entry of the other, has stored its own and is returning
C3_Witness ==
    \E t \in Threads :
       /\ \A u \in Threads \ {t} : calls[u].pc = "idle"
       /\ calls[t].pc = "unlock"
       /\ calls[t].op = "Register"
       /\ calls[t].contended
       /\ calls[t].found
       /\ calls[t].srv.Name = NameRenamed
       /\ Has(servers, calls[t].id)
       /\ servers[calls[t].id] = calls[t].srv
       /\ Count(firstCount, calls[t].id) = 1

\* the goroutines inside a critical section of the write lock
Writers ==
    {t \in Threads : /\ calls[t].pc \in {"read", "write", "delete", "sweep", "unlock"}
                     /\ calls[t].op \in {"Register", "Remove", "Prune"}}

\* the goroutines between RLock and RUnlock
Readers ==
    {t \in Threads : /\ calls[t].pc \in {"read", "iter", "runlock"}
                     /\ calls[t].op \in {"Has", "List"}}

\* C12: a List call builds its result from the store of one instant: while it
\* iterates, what it has collected are whole entries of the current store,
\* one per visited key, and when the loop ends the result is exactly the
\* entries the store holds at that instant, which lies inside the call.
C12_ListSnapshot ==
    \A t \in Threads :
       (calls[t].pc \in {"iter", "runlock"} /\ calls[t].op = "List") =>
          /\ calls[t].visited \subseteq DOMAIN servers
          /\ Len(calls[t].list) = Cardinality(calls[t].visited)
          /\ {calls[t].list[j] : j \in 1..Len(calls[t].list)} =
                {servers[k] : k \in calls[t].visited}
          /\ calls[t].pc = "runlock" => calls[t].visited = DOMAIN servers

\* a List has collected the stored entry while a Register that will replace
\* that entry waits for the lock
C12_Witness ==
    \E t, u \in Threads :
       /\ calls[t].pc = "runlock"
       /\ calls[t].op = "List"
       /\ Len(calls[t].list) = 1
       /\ calls[u].pc = "lock"
       /\ calls[u].op = "Register"
       /\ calls[u].id \in calls[t].visited
       /\ calls[u].srv.Name # calls[t].list[1].Name

\* C14: at most one of Register, Remove and Prune is inside its critical
\* section, none of them is inside while a List or Has holds the read lock,
\* and the mutex records exactly the holders.
C14_MutualExclusion ==
    /\ Cardinality(Writers) <= 1
    /\ Writers # {} => Readers = {}
    /\ Writers = {t \in Threads : mu.w = t}
    /\ Readers = mu.r

\* a List and a Has hold the read lock at the same time
C14_Witness ==
    \E t, u \in Threads :
       /\ {t, u} \subseteq Readers
       /\ calls[t].op = "List"
       /\ calls[u].op = "Has"

\* goroutine t returns from a call of op
Returns(t, op) == calls[t].pc = "unlock" /\ calls[t].op = op /\ calls'[t].pc = "idle"

\* C15: when a Register returns its identity is stored and when a Remove
\* returns it is not; the presence of an identity changes only inside a
\* critical section; so a Remove called while the identity is stored, with no
\* other Remove or Prune deleting it first, returns true, and a Register
\* called while it is absent, with no other Register storing it first,
\* returns existed = false.
C15_RealTimeOrder ==
    [][/\ \A t \in Threads :
             /\ Returns(t, "Register") =>
                   /\ calls[t].id \in DOMAIN servers'
                   /\ (calls[t].pre /\ calls[t].intact) => ~calls[t].found
             /\ Returns(t, "Remove") =>
                   /\ calls[t].id \notin DOMAIN servers'
                   /\ (calls[t].pre /\ calls[t].intact) => calls[t].found
       /\ DOMAIN servers' # DOMAIN servers =>
             \E u \in Threads :
                /\ calls[u].pc \in {"write", "delete", "sweep"}
                /\ calls'[u].pc = "unlock"]_vars

\* a Remove called while the identity was stored returns true, and another
\* Remove of the same identity, overlapping it, has lost the entry to it
C15_Witness ==
    \E t, u \in Threads :
       /\ calls[t].pc = "unlock"
       /\ calls[t].op = "Remove"
       /\ calls[t].pre
       /\ calls[t].intact
       /\ calls[t].found
       /\ calls[u].pc = "lock"
       /\ calls[u].op = "Remove"
       /\ calls[u].id = calls[t].id
       /\ calls[u].pre
       /\ ~calls[u].intact

----------------------------------------------------------------------------
(* internal/httpapi: the handlers of POST, PUT and DELETE /servers/:id.     *)
(* A handler is split where it calls the repository and where it waits for *)
(* the network; a repository call is one step, as its lock makes it.       *)
(* The parts of a request (URL parameter, RemoteAddr, body) are drawn where *)
(* the handler reads them.  A request being served is                      *)
(*   [pc, handler, rawid, addr, remote, data, pings, deadline, out].       *)

RawA == <<"1", "0", ".", "0", ".", "0", ".", "5", ":", "3", "0", "0", "0", "0">>

RawLowPort == <<"1", "0", ".", "0", ".", "0", ".", "5", ":", "8", "0">>

RawHostName == <<"e", "x", "a", "m", "p", "l", "e", ":", "3", "0", "0", "0", "0">>

RawNoPort == <<"1", "0", ".", "0", ".", "0", ".", "5">>

RawBadPort == <<"1", "0", ".", "0", ".", "0", ".", "5", ":", "u", "d", "p">>

\* values of the :server_id URL parameter
RawIds == {RawA, RawLowPort, RawHostName, RawNoPort, RawBadPort}

Remote5 == <<"1", "0", ".", "0", ".", "0", ".", "5", ":", "5", "1", "0", "0", "0">>

Remote6 == <<"1", "0", ".", "0", ".", "0", ".", "6", ":", "5", "1", "0", "0", "0">>

\* values of ctx.Request.RemoteAddr
Remotes == {Remote5, Remote6}

NameShort == <<" ", "a", "b", " ">>

NoBody == [json |-> FALSE, Name |-> <<>>, GameVersion |-> 0, IsJoinable |-> FALSE]

NamePadded == <<" ">> \o NameMyServer \o <<" ">>

\* request bodies, each with what json.Unmarshal leaves in serverData and
\* whether it returns nil: a valid one whose name has spaces around it, one
\* whose name is too short once trimmed, one with the same fields as the
\* valid one and a "port" that is a string (Unmarshal fills the other fields
\* and returns an UnmarshalTypeError), and one that is not JSON
Bodies ==
    { [json |-> TRUE, Name |-> NamePadded, GameVersion |-> 3, IsJoinable |-> TRUE],
      [json |-> TRUE, Name |-> NameShort, GameVersion |-> 3, IsJoinable |-> TRUE],
      [json |-> FALSE, Name |-> NamePadded, GameVersion |-> 3, IsJoinable |-> TRUE],
      NoBody }

\* the model's inputs parsed once: ParseServerAddress over RawIds and Remotes
Parsed == [raw \in RawIds \cup Remotes |-> ParseServerAddress(raw)]

\* a new request is served by the first free goroutine; which one is free
\* makes no difference to the handlers
FirstFree(i) == reqs[i].pc = "idle" /\ \A j \in Slots : j < i => reqs[j].pc # "idle"

Pong == <<"p", "o", "n", "g">>

\* what the read on the probe socket yields: no datagram before the deadline,
\* or the first datagram
ProbeReplies == {<<>>, Pong, <<"n", "o", "p", "e">>}

\* var serverData srvrepo.Server; json.Unmarshal(body, &serverData)
Decode(body) == [err |-> ~body.json, data |-> MkServer(ZeroAddress, body, 0)]

\* net.ResolveUDPAddr fails for a host that is not an address literal and for
\* a port outside 0..65535
ResolveFails(a) == a.IP = NilIP \/ a.Port < 0 \/ a.Port > 65535

\* the whole datagram taken as the response
ProbeResponseWhole(datagram) == datagram

\* response := string(readBuff[0:4]) of a zeroed 8-byte buffer
ProbeResponse(datagram) == [i \in 1..4 |-> IF i <= Len(datagram) THEN datagram[i] ELSE "NUL"]

\* a check that accepts any response
IsPongAny(response) == TRUE

\* response == "pong"
IsPong(response) == response = Pong

\* a source check that lets every request through
SourceMatchesAny(claimed, observed) == TRUE

\* serverData.IP.Equal(requestAddr.IP)
SourceMatches(claimed, observed) == IPEqual(claimed, observed)

Response(status, result) == [status |-> status, result |-> result]

\* serverData.ServerAddress = serverAddr; serverData.Seen(); Validate; the
\* comparison with the request's source address.  status 0: all passed
ValidateRequest(data, addr, remote, t) ==
    LET v == ServerValidate(Seen([data EXCEPT !.IP = addr.IP, !.Port = addr.Port], t))
    IN  IF v.err # "" THEN [status |-> 400, result |-> v.err, srv |-> v.srv]
        ELSE IF ~SourceMatches(v.srv.IP, Parsed[remote].addr.IP)
        THEN [status |-> 403,
              result |-> "request IP address does not match client IP address",
              srv |-> v.srv]
        ELSE [status |-> 0, result |-> "", srv |-> v.srv]

NewReq(handler, rawid) ==
    [pc |-> "idle", handler |-> handler, rawid |-> rawid, addr |-> ZeroAddress,
     remote |-> <<>>, data |-> MkServer(ZeroAddress, NoBody, 0), pings |-> 0,
     deadline |-> FALSE, out |-> <<>>]

\* the handler of request q returns: its goroutine is free again
Finish(i, q, out, committed, existed, reply) ==
    /\ reqs' = [reqs EXCEPT ![i] = IdleReq]
    /\ resp' = [handler |-> q.handler, rawid |-> q.rawid, remote |-> q.remote,
                name |-> q.data.Name, out |-> out, committed |-> committed,
                existed |-> existed, reply |-> reply]

Respond(i, q, out) ==
    /\ Finish(i, q, out, FALSE, FALSE, <<>>)
    /\ UNCHANGED servers

HttpInit ==
    /\ servers = EmptyRepository
    /\ now = 0
    /\ lastCall = [op |-> "none"]
    /\ sinceRemove = {}
    /\ LockIdle
    /\ HttpIdle
    /\ PrunerIdle
    /\ CallerIdle

\* POST /servers/:server_id, HandleRegister up to the decision to probe
RegisterStart(i, rawid) ==
    /\ alive
    /\ FirstFree(i)
    /\ \E q \in {NewReq("Register", rawid)} :
       \E pa \in {Parsed[rawid]} :
          IF ~pa.ok
          THEN Respond(i, q, <<Response(406, "invalid server ID")>>)
          ELSE /\ reqs' = [reqs EXCEPT ![i] =
                     [q EXCEPT !.addr = pa.addr,
                               !.pc = IF Has(servers, AddressString(pa.addr))
                                      THEN "update" ELSE "dial"]]
               /\ resp' = NoResp
               /\ UNCHANGED servers
    /\ UNCHANGED <<now, lastCall, sinceRemove, lockVars, alive, prunerVars, callerVars>>

\* HandleRegister: resolve, dial, set the deadline and send the pings; a
\* failed dial ends in glog.Fatal, which exits the process; a failed
\* SetReadDeadline is logged and the handler goes on without a deadline
RegisterDial(i) ==
    /\ alive
    /\ reqs[i].pc = "dial"
    /\ \E socketError, deadlineError \in BOOLEAN :
          IF ResolveFails(reqs[i].addr) \/ socketError
          THEN /\ alive' = FALSE
               /\ reqs' = [reqs EXCEPT ![i].pc = "killed"]
          ELSE /\ reqs' = [reqs EXCEPT ![i].pings = 10, ![i].deadline = ~deadlineError,
                                       ![i].pc = "wait"]
               /\ UNCHANGED alive
    /\ resp' = NoResp
    /\ UNCHANGED <<repoVars, lockVars, prunerVars, callerVars>>

\* a handler that dials again when the read ends at the deadline
TimedOutRedials(i) ==
    /\ reqs' = [reqs EXCEPT ![i].pc = "dial", ![i].pings = 0]
    /\ resp' = NoResp
    /\ UNCHANGED servers

\* the read ended at the deadline: 504 and return
TimedOut(i) == Respond(i, reqs[i], <<Response(504, "no ping response received")>>)

\* HandleRegister from the read of the reply to the end; reply is the first
\* datagram, or <<>> when the read ends at the deadline
RegisterProbed(i, remote, body, reply) ==
    /\ alive
    /\ reqs[i].pc = "wait"
    /\ reply = <<>> => reqs[i].deadline
    /\ IF reply = <<>>
          THEN TimedOut(i)
          ELSE IF ~IsPong(ProbeResponse(reply))
          THEN /\ Finish(i, reqs[i], <<Response(406, "Bad ping response")>>,
                         FALSE, FALSE, reply)
               /\ UNCHANGED servers
          ELSE \E dec \in {Decode(body)} :
               \E q \in {[reqs[i] EXCEPT !.remote = remote, !.data = dec.data]} :
               \E chk \in {ValidateRequest(dec.data, q.addr, remote, now)} :
               \E out \in {IF dec.err THEN <<Response(400, "invalid request JSON")>>
                           ELSE <<>>} :
                  IF chk.status # 0
                  THEN /\ Finish(i, q, Append(out, Response(chk.status, chk.result)),
                                 FALSE, FALSE, reply)
                       /\ UNCHANGED servers
                  ELSE \E r \in {Register(servers, chk.srv)} :
                          /\ servers' = r.servers
                          /\ Finish(i, q,
                                    Append(out, Response(200, "registration complete")),
                                    TRUE, r.existed, reply)
    /\ UNCHANGED <<now, lastCall, sinceRemove, lockVars, alive, prunerVars, callerVars>>

\* HandleUpdate up to its call of Has, whose result the handler overwrites,
\* and the reading of the clock by serverData.Seen() that follows it: the
\* time read is kept in the data until Register is called
UpdateBegin(i, q, remote, body) ==
    \E dec \in {Decode(body)} :
    \E out \in {IF dec.err THEN <<Response(400, "invalid request JSON")>> ELSE <<>>} :
    \E pa \in {Parsed[q.rawid]} :
       IF ~pa.ok
       THEN Respond(i, [q EXCEPT !.remote = remote],
                    Append(out, Response(400, "invalid server ID")))
       ELSE /\ reqs' = [reqs EXCEPT ![i] =
                  [q EXCEPT !.remote = remote, !.addr = pa.addr,
                            !.data = Seen(dec.data, now),
                            !.out = out, !.pc = "commit"]]
            /\ resp' = NoResp
            /\ UNCHANGED servers

\* PUT /servers/:server_id
UpdateStart(i, rawid, remote, body) ==
    /\ alive
    /\ FirstFree(i)
    /\ UpdateBegin(i, NewReq("Update", rawid), remote, body)
    /\ UNCHANGED <<now, lastCall, sinceRemove, lockVars, alive, prunerVars, callerVars>>

\* HandleRegister found the identity in the repository: c.HandleUpdate(ctx)
UpdateDelegated(i, remote, body) ==
    /\ alive
    /\ reqs[i].pc = "update"
    /\ UpdateBegin(i, reqs[i], remote, body)
    /\ UNCHANGED <<now, lastCall, sinceRemove, lockVars, alive, prunerVars, callerVars>>

\* HandleUpdate from the validation to the end
UpdateCommit(i) ==
    /\ alive
    /\ reqs[i].pc = "commit"
    /\ \E chk \in {ValidateRequest(reqs[i].data, reqs[i].addr, reqs[i].remote,
                                     reqs[i].data.LastSeen)} :
          IF chk.status # 0
          THEN Respond(i, reqs[i], Append(reqs[i].out, Response(chk.status, chk.result)))
          ELSE \E r \in {Register(servers, chk.srv)} :
                  /\ servers' = r.servers
                  /\ Finish(i, reqs[i],
                            Append(reqs[i].out,
                                   IF r.existed THEN Response(202, "updated")
                                   ELSE Response(201, "registered")),
                            TRUE, r.existed, <<>>)
    /\ UNCHANGED <<now, lastCall, sinceRemove, lockVars, alive, prunerVars, callerVars>>

\* DELETE /servers/:server_id, HandleRemove
RemoveHandle(i, rawid, remote) ==
    /\ alive
    /\ FirstFree(i)
    /\ \E q \in {[NewReq("Remove", rawid) EXCEPT !.remote = remote]} :
       \E pa \in {Parsed[rawid]} :
          IF ~pa.ok
          THEN Respond(i, q, <<Response(404, "invalid server ID")>>)
          ELSE IF ~SourceMatches(pa.addr.IP, Parsed[remote].addr.IP)
          THEN Respond(i, q, <<Response(403,
                      "request IP address does not match client IP address")>>)
          ELSE \E r \in {Remove(servers, AddressString(pa.addr))} :
                  /\ servers' = r.servers
                  /\ Finish(i, q, <<IF r.existed THEN Response(200, "success")
                                    ELSE Response(404, "failure")>>,
                            FALSE, r.existed, <<>>)
    /\ UNCHANGED <<now, lastCall, sinceRemove, lockVars, alive, prunerVars, callerVars>>

HttpTick ==
    /\ alive
    /\ now < MaxHttpTime
    /\ now' = now + 1
    /\ resp' = NoResp
    /\ UNCHANGED <<servers, lastCall, sinceRemove, lockVars, reqs, alive, prunerVars, callerVars>>

HttpNext ==
    \/ \E i \in Slots, rawid \in RawIds : RegisterStart(i, rawid)
    \/ \E i \in Slots : RegisterDial(i)
    \/ \E i \in Slots, remote \in Remotes, body \in Bodies, reply \in ProbeReplies :
          RegisterProbed(i, remote, body, reply)
    \/ \E i \in Slots, rawid \in RawIds, remote \in Remotes, body \in Bodies :
          UpdateStart(i, rawid, remote, body)
    \/ \E i \in Slots, remote \in Remotes, body \in Bodies : UpdateDelegated(i, remote, body)
    \/ \E i \in Slots : UpdateCommit(i)
    \/ \E i \in Slots, rawid \in RawIds, remote \in Remotes : RemoveHandle(i, rawid, remote)
    \/ HttpTick

SpecHttp == HttpInit /\ [][HttpNext]_vars

----------------------------------------------------------------------------
(* Properties of the handlers.                                             *)

\* the outcome a response carries: ctx.JSON(status, gin.H{"result": ...})
Outcome(r) ==
    IF r.status = 403 THEN "SourceMismatch"
    ELSE IF r.status = 504 THEN "ProbeTimeout"
    ELSE IF r.status = 412 THEN "ProbeUnreachable"
    ELSE IF r.result = "Bad ping response" THEN "ProbeRejected"
    ELSE IF r.result = "invalid server ID" THEN "MalformedAddress"
    ELSE IF r.status = 400 THEN "InvalidEntry"
    ELSE IF r.status = 201 \/ r.result = "registration complete" THEN "Created"
    ELSE IF r.status = 202 THEN "Updated"
    ELSE IF r.result = "success" THEN "Removed"
    ELSE IF r.result = "failure" THEN "NotFound"
    ELSE "Unknown"

\* the outcome of the last response a handler wrote
FinalOutcome(out) == IF out = <<>> THEN "None" ELSE Outcome(out[Len(out)])

\* goroutine i leaves HandleRegister's probe or HandleUpdate's commit
Leaves(i, pc) == reqs[i].pc = pc /\ reqs'[i].pc # pc

\* C4: a first-time registration whose probe fails (dial or resolution
\* failure, no reply before the deadline, a reply other than "pong") ends with
\* the matching probe outcome and leaves the repository as it was.
C4_ProbeGating ==
    [][\A i \in Slots :
          /\ (Leaves(i, "dial") /\ reqs'[i].pc # "wait") =>
                /\ reqs'[i].pc = "idle"
                /\ FinalOutcome(resp'.out) = "ProbeUnreachable"
                /\ servers' = servers
          /\ (Leaves(i, "wait") /\ ProbeResponse(resp'.reply) # Pong) =>
                /\ FinalOutcome(resp'.out) =
                      IF resp'.reply = <<>> THEN "ProbeTimeout" ELSE "ProbeRejected"
                /\ servers' = servers]_vars

C6_SourceMismatchFirst ==
    [][\A i \in Slots :
          (/\ Leaves(i, "wait") \/ Leaves(i, "commit")
           /\ resp'.remote # <<>>
           /\ ~IPEqual(reqs[i].addr.IP, Parsed[resp'.remote].addr.IP)) =>
             /\ FinalOutcome(resp'.out) = "SourceMismatch"
             /\ servers' = servers]_vars

\* a step of HandleRemove: the handler runs from start to end in one step
RemoveStep ==
    /\ reqs' = reqs
    /\ resp'.handler = "Remove"
    /\ resp' # resp \/ servers' # servers

\* C7: HandleRemove answers SourceMismatch and changes nothing when the
\* claimed IP differs from the request's source IP; otherwise it answers
\* Removed iff the identity was stored, NotFound if not, and the identity is
\* not stored afterwards; it waits for no probe and validates no name.
C7_RemoveOutcome ==
    [][RemoveStep =>
          LET pa == Parsed[resp'.rawid]
              id == AddressString(pa.addr)
              outcome == FinalOutcome(resp'.out)
          IN  /\ Len(resp'.out) = 1
              /\ IF ~pa.ok
                 THEN outcome = "MalformedAddress" /\ servers' = servers
                 ELSE IF ~IPEqual(pa.addr.IP, Parsed[resp'.remote].addr.IP)
                 THEN outcome = "SourceMismatch" /\ servers' = servers
                 ELSE /\ outcome = IF id \in DOMAIN servers THEN "Removed" ELSE "NotFound"
                      /\ DOMAIN servers' = DOMAIN servers \ {id}
                      /\ \A k \in DOMAIN servers' : servers'[k] = servers[k]]_vars

\* a stored entry was removed by a request from its own IP
C7_Witness ==
    /\ resp.handler = "Remove"
    /\ resp.out = <<Response(200, "success")>>
    /\ resp.existed
    /\ resp.rawid = RawA
    /\ resp.remote = Remote5
    /\ ~Has(servers, RawA)

\* C8: an attempt that reaches the commit answers Created exactly when
\* Register returned existed = false and Updated exactly when it returned
\* true, on the probed path and in HandleUpdate alike.
C8_OutcomeFollowsExisted ==
    [][\A i \in Slots :
          (/\ Leaves(i, "wait") \/ Leaves(i, "commit")
           /\ resp'.committed) =>
             FinalOutcome(resp'.out) = IF resp'.existed THEN "Updated" ELSE "Created"]_vars

\* C18: no probe failure ends the process: after a failed resolution or dial
\* the process is running and no handler has been cut off.
C18_ProbeFailureNotFatal ==
    /\ alive
    /\ \A i \in Slots : reqs[i].pc # "killed"

\* C20: HandleRegister goes on as an update, without dialling, exactly when
\* Has finds the claimed identity stored; that attempt then runs HandleUpdate
\* (validation, source match, commit), sends no ping and reads no reply.
C20_KnownSkipsProbe ==
    [][\A i \in Slots :
          /\ (reqs[i].pc = "idle" /\ reqs'[i].pc \in {"update", "dial"}) =>
                (reqs'[i].pc = "update") = (reqs'[i].rawid \in DOMAIN servers)
          /\ Leaves(i, "update") =>
                /\ reqs'[i].pc = "commit"
                /\ reqs'[i].pings = 0
          /\ (Leaves(i, "commit") /\ reqs[i].handler = "Register") =>
                /\ reqs[i].pings = 0
                /\ resp'.reply = <<>>
                /\ resp'.out[Len(resp'.out)].status \in {201, 202, 400, 403}
                /\ resp'.committed = (servers' # servers \/ resp'.existed)]_vars

\* a POST for a stored identity was committed as an update, with no probe
C20_Witness ==
    /\ resp.handler = "Register"
    /\ resp.committed
    /\ resp.existed
    /\ resp.reply = <<>>
    /\ resp.out = <<Response(202, "updated")>>

\* an IPv4 address, a port in the range, a name with no space around it and
\* 3 to 32 characters long
ValidEntry(ip, port, name) ==
    /\ IsIPv4(ip)
    /\ port \in 1024..65535
    /\ Len(name) \in 3..32
    /\ ~IsSpace(name[1])
    /\ ~IsSpace(name[Len(name)])

\* the reply read from the probe socket starts with "pong"
Ponged(reply) == Len(reply) >= 4 /\ SubSeq(reply, 1, 4) = Pong

\* C21: every stored entry has an IPv4 address, a port in 1024..65535 and a
\* trimmed name of 3 to 32 characters; an attempt that reaches the validation
\* (after the pong in HandleRegister, always in HandleUpdate) with an address
\* or a name that is not valid answers InvalidEntry, commits nothing and
\* leaves the store as it was.
C21_ValidEntries ==
    [][/\ \A k \in DOMAIN servers' :
             ValidEntry(servers'[k].IP, servers'[k].Port, servers'[k].Name)
       /\ \A i \in Slots :
             (/\ Leaves(i, "commit") \/ (Leaves(i, "wait") /\ Ponged(resp'.reply))
              /\ ~ValidEntry(reqs[i].addr.IP, reqs[i].addr.Port, TrimSpace(resp'.name))) =>
                /\ FinalOutcome(resp'.out) = "InvalidEntry"
                /\ ~resp'.committed
                /\ servers' = servers]_vars

\* a registration whose name came with spaces around it was committed, and
\* the stored name is the trimmed one
C21_Witness ==
    /\ resp.committed
    /\ resp.name = NamePadded
    /\ Has(servers, resp.rawid)
    /\ servers[resp.rawid].Name = NameMyServer

\* C24: of the identities requested, only the one without a port and the one
\* whose port is no number fail to parse, port 80 parses; a request whose
\* identity fails to parse is answered MalformedAddress in the step that
\* takes it up, with the store and every request in progress as they were,
\* so that no request with such an identity ever dials or waits for a reply;
\* a request whose identity parses is never answered MalformedAddress.
C24_MalformedAddress ==
    [][/\ \A raw \in RawIds : Parsed[raw].ok = (raw \notin {RawNoPort, RawBadPort})
       /\ Parsed[RawLowPort].addr.Port = 80
       /\ resp'.handler # "none" =>
             IF Parsed[resp'.rawid].ok
             THEN FinalOutcome(resp'.out) # "MalformedAddress"
             ELSE /\ FinalOutcome(resp'.out) = "MalformedAddress"
                  /\ servers' = servers
                  /\ reqs' = reqs
       /\ \A i \in Slots : reqs'[i].pc # "idle" => Parsed[reqs'[i].rawid].ok]_vars

\* a POST whose identity has a port that is no number was answered
\* "invalid server ID" while an entry is stored
C24_Witness ==
    /\ resp.handler = "Register"
    /\ resp.rawid = RawBadPort
    /\ resp.out = <<Response(406, "invalid server ID")>>
    /\ servers # EmptyRepository

\* C26: a committed registration is answered as the README documents: 201
\* with result "created" when the identity was not stored, 200 with result
\* "updated" when it was.
C26_DocumentedResponses ==
    (resp.handler \in {"Register", "Update"} /\ resp.committed) =>
        resp.out = IF resp.existed THEN <<Response(200, "updated")>>
                   ELSE <<Response(201, "created")>>

\* C27: an attempt whose claimed IP differs from the IP the request came
\* from has sent no ping when it ends.
C27_SourceMatchBeforeProbe ==
    [][\A i \in Slots :
          (/\ Leaves(i, "wait")
           /\ resp'.remote # <<>>
           /\ ~IPEqual(reqs[i].addr.IP, Parsed[resp'.remote].addr.IP)) =>
             reqs[i].pings = 0]_vars

\* C28: a registration or update request is answered with exactly one
\* outcome, and when an outcome of it is an error nothing was committed and
\* the store is as it was.
C28_ErrorAbsorbing ==
    [][resp'.handler \in {"Register", "Update"} =>
          /\ Len(resp'.out) = 1
          /\ (\E j \in 1..Len(resp'.out) : resp'.out[j].status >= 400) =>
                ~resp'.committed /\ servers' = servers]_vars

\* C31: the LastSeen stored for an identity never moves backwards from one
\* commit to the next.
C31_LastSeenNeverBackwards ==
    [][\A k \in DOMAIN servers \cap DOMAIN servers' :
          servers'[k].LastSeen >= servers[k].LastSeen]_vars

\* C32: a handler that has not dialled has sent no ping, a handler that waits
\* for the reply has sent its ten pings, and while it waits it sends nothing
\* more: it waits on as it is or ends; when the wait ends without a datagram
\* the request is answered 504 alone and is over, nothing is committed and
\* the store is as it was: the handler does not dial again.
C32_OneBoundedProbe ==
    [][\A i \in Slots :
          /\ reqs'[i].pc = "dial" => reqs'[i].pings = 0
          /\ reqs'[i].pc = "wait" => reqs'[i].pings = 10
          /\ reqs[i].pc = "wait" => reqs'[i] \in {reqs[i], IdleReq}
          /\ (Leaves(i, "wait") /\ resp'.reply = <<>>) =>
                /\ resp'.out = <<Response(504, "no ping response received")>>
                /\ ~resp'.committed
                /\ servers' = servers
                /\ reqs'[i] = IdleReq]_vars

\* a POST was answered 504 after its ten pings, and no handler is running
C32_Witness ==
    /\ resp.handler = "Register"
    /\ resp.out = <<Response(504, "no ping response received")>>
    /\ \A i \in Slots : reqs[i].pc = "idle"

----------------------------------------------------------------------------
(* Prune beside Register, with the clock running on while a call waits for *)
(* the lock.                                                               *)

CutoffTick ==
    /\ alive
    /\ now < MaxCutoffTime
    /\ now' = now + 1
    /\ UNCHANGED <<servers, lastCall, sinceRemove, lockVars, httpVars, prunerVars, callerVars>>

CutoffNext ==
    \/ \E t \in Threads, x \in LockRegistrations : CallRegister(t, x[1], x[2])
    \/ \E t \in Threads, threshold \in LockThresholds : CallPrune(t, threshold)
    \/ \E t \in Threads : AcquireLock(t)
    \/ \E t \in Threads : ReadExists(t)
    \/ \E t \in Threads : WriteEntry(t)
    \/ \E t \in Threads : Sweep(t)
    \/ \E t \in Threads : Unlock(t)
    \/ CutoffTick

SpecCutoff == LockInit /\ [][CutoffNext]_vars

\* C34: Prune fixes its cutoff, the time of the call less the threshold,
\* when it is called and before it has the lock, and keeps it to the end of
\* the call; its sweep deletes the entries whose LastSeen is before that
\* cutoff and leaves every other entry as it is, however long the call
\* waited for the lock: an entry whose LastSeen is within the threshold of
\* the time Prune was called, such as one registered since, survives.
C34_CutoffBeforeLock ==
    [][\A t \in Threads :
          /\ (/\ calls[t].pc = "idle"
              /\ calls'[t].pc # "idle"
              /\ calls'[t].op = "Prune") =>
                /\ calls'[t].pc = "lock"
                /\ mu' = mu
                /\ \A th \in LockThresholds : calls'[t].cutoff = now - th
          /\ (/\ calls[t].pc # "idle"
              /\ calls'[t].pc # "idle"
              /\ calls[t].op = "Prune") => calls'[t].cutoff = calls[t].cutoff
          /\ (calls[t].pc = "sweep" /\ calls'[t].pc # "sweep") =>
                \A k \in DOMAIN servers :
                   IF servers[k].LastSeen >= calls[t].cutoff
                   THEN k \in DOMAIN servers' /\ servers'[k] = servers[k]
                   ELSE k \notin DOMAIN servers']_vars

\* a Prune has swept after waiting for the lock, and has left the one entry
\* of the store, registered since Prune was called, that a cutoff computed at
\* the time of the sweep would have deleted
C34_Witness ==
    \E t \in Threads :
       /\ calls[t].pc = "unlock"
       /\ calls[t].op = "Prune"
       /\ \E k \in DOMAIN servers, th \in LockThresholds :
             /\ servers[k].LastSeen >= calls[t].cutoff + th
             /\ servers[k].LastSeen < now - th
       /\ Cardinality(DOMAIN servers) = 1

----------------------------------------------------------------------------
(* main: the pruner goroutine beside the repository.  Time is counted in   *)
(* half seconds, so that half of a whole number of seconds is exact.       *)

\* values of the -s flag, in seconds
StaleSeconds == 0..MaxStaleSeconds

PrunerAddrs == {[IP |-> IP5, Port |-> 30000], [IP |-> IP6, Port |-> 30000]}

PrunerPayload == [Name |-> NameMyServer, GameVersion |-> 3, IsJoinable |-> TRUE]

\* interval := threshold / 2
PruneInterval(threshold) == threshold \div 2

\* time.Tick(d) returns a nil channel for d <= 0, which never delivers;
\* otherwise <<t>> is the time of the next tick
Tick(d, t) == IF d <= 0 THEN <<>> ELSE <<t + d>>

\* initApp: go pruneServers(repository, time.Duration(staleThreshold)*time.Second)
PrunerInit ==
    /\ servers = EmptyRepository
    /\ now = 0
    /\ lastCall = [op |-> "none"]
    /\ sinceRemove = {}
    /\ LockIdle
    /\ HttpIdle
    /\ CallerIdle
    /\ \E s \in StaleSeconds :
          /\ staleThreshold = s + s
          /\ nextTick = Tick(PruneInterval(s + s), 0)

\* for range time.Tick(interval) { repository.Prune(threshold) }
PrunerTick ==
    /\ IF nextTick = <<>> THEN FALSE ELSE now = nextTick[1]
    /\ servers' = Prune(servers, Cutoff(now, staleThreshold))
    /\ nextTick' = Tick(PruneInterval(staleThreshold), now)
    /\ UNCHANGED <<now, lastCall, sinceRemove, lockVars, httpVars, staleThreshold,
                   callerVars>>

\* a registration is committed with LastSeen set to the current time
PrunerRegister(a) ==
    /\ servers' = Register(servers, MkServer(a, PrunerPayload, now)).servers
    /\ UNCHANGED <<now, lastCall, sinceRemove, lockVars, httpVars, prunerVars, callerVars>>

\* time passes; a tick that is due is served first
PrunerClock ==
    /\ now < MaxPruneTime
    /\ IF nextTick = <<>> THEN TRUE ELSE now < nextTick[1]
    /\ now' = now + 1
    /\ UNCHANGED <<servers, lastCall, sinceRemove, lockVars, httpVars, prunerVars, callerVars>>

PrunerNext ==
    \/ PrunerTick
    \/ \E a \in PrunerAddrs : PrunerRegister(a)
    \/ PrunerClock

SpecPruner == PrunerInit /\ [][PrunerNext]_vars

\* C10: with the pruner running, no entry stays in the repository longer than
\* 1.5 x threshold after its LastSeen, for every configured threshold and
\* every phase of the ticker.
C10_PrunedWithin ==
    \A k \in DOMAIN servers : 2 * (now - servers[k].LastSeen) <= 3 * staleThreshold


\* C33: an entry whose latest commit, made with LastSeen the time of the
\* commit, is no older than the threshold is still stored after any step of
\* the pruner or of a registration, and a registration stores the current
\* time: an identity registered again before the threshold has passed since
\* its last registration is never deleted.
C33_KeepAlive ==
    [][/\ \A k \in DOMAIN servers :
             now - servers[k].LastSeen <= staleThreshold =>
                /\ k \in DOMAIN servers'
                /\ servers'[k].LastSeen >= servers[k].LastSeen
       /\ \A k \in DOMAIN servers' :
             (k \notin DOMAIN servers \/ servers'[k] # servers[k]) =>
                servers'[k].LastSeen = now]_vars

\* the pruner has just swept, with a threshold of one second, a store whose
\* only entry was last registered exactly one threshold ago, and the entry is
\* still stored
C33_Witness ==
    /\ staleThreshold = 2
    /\ nextTick = <<now + PruneInterval(staleThreshold)>>
    /\ DOMAIN servers = {AddressString([IP |-> IP5, Port |-> 30000])}
    /\ \A k \in DOMAIN servers : servers[k].LastSeen = now - staleThreshold
    /\ now > staleThreshold

----------------------------------------------------------------------------
(* The repository and a caller of the package that keeps the Server values *)
(* it submits and receives.  A Server is passed, stored and listed by      *)
(* value; its IP is a slice, whose bytes live in a backing array that the  *)
(* copies of the slice header share.  Here the IP field of a Server is the *)
(* index of its backing array in heap.                                     *)

CallerAddrs == {[IP |-> IP5, Port |-> 30000], [IP |-> IP6, Port |-> 30000]}

\* the bytes a caller writes into the last element of an IP
CallerBytes == {5, 6}

\* the Server value with the bytes of its IP read from the heap
Deref(h, srv) == [srv EXCEPT !.IP = h[srv.IP]]

\* what the store holds, and what the caller holds
StoreView == [k \in DOMAIN servers |-> Deref(heap, servers[k])]

HeldView == {Deref(heap, e) : e \in held}

CallerInit ==
    /\ servers = EmptyRepository
    /\ now = 0
    /\ lastCall = [op |-> "none"]
    /\ sinceRemove = {}
    /\ LockIdle
    /\ HttpIdle
    /\ PrunerIdle
    /\ CallerIdle

\* the caller builds a Server: net.ParseIP allocates the bytes of its IP
CallerParse(a) ==
    /\ Len(heap) < MaxArrays
    /\ heap' = Append(heap, a.IP)
    /\ held' = held \cup {MkServer([IP |-> Len(heap) + 1, Port |-> a.Port],
                                   PrunerPayload, now)}
    /\ lastCall' = [op |-> "Parse"]
    /\ UNCHANGED <<servers, now, sinceRemove, lockVars, httpVars, prunerVars>>

\* Register(srv): r.servers[id] = srv stores the struct, slice header included
CallerRegister(e) ==
    /\ servers' = MapPut(servers, ServerID(Deref(heap, e)), e)
    /\ lastCall' = [op |-> "Register"]
    /\ UNCHANGED <<now, sinceRemove, lockVars, httpVars, prunerVars, callerVars>>

\* List(): serverList = append(serverList, srv) copies each struct
CallerList ==
    /\ held' = held \cup {servers[k] : k \in DOMAIN servers}
    /\ lastCall' = [op |-> "List"]
    /\ UNCHANGED <<servers, now, sinceRemove, lockVars, httpVars, prunerVars, heap>>

CallerRemove(id) ==
    /\ servers' = Remove(servers, id).servers
    /\ lastCall' = [op |-> "Remove"]
    /\ UNCHANGED <<now, sinceRemove, lockVars, httpVars, prunerVars, callerVars>>

CallerPrune ==
    /\ servers' = Prune(servers, Cutoff(now, 0))
    /\ lastCall' = [op |-> "Prune"]
    /\ UNCHANGED <<now, sinceRemove, lockVars, httpVars, prunerVars, callerVars>>

\* the caller assigns to a field of a Server it holds: e.Name = ...
CallerSetName(e) ==
    /\ held' = (held \ {e}) \cup {[e EXCEPT !.Name = NameRenamed]}
    /\ lastCall' = [op |-> "Modify"]
    /\ UNCHANGED <<servers, now, sinceRemove, lockVars, httpVars, prunerVars, heap>>

\* the caller assigns to a byte of the IP of a Server it holds: e.IP[15] = b
CallerSetByte(e, b) ==
    /\ heap' = [heap EXCEPT ![e.IP][16] = b]
    /\ lastCall' = [op |-> "Modify"]
    /\ UNCHANGED <<servers, now, sinceRemove, lockVars, httpVars, prunerVars, held>>

CallerTick ==
    /\ now < MaxCallerTime
    /\ now' = now + 1
    /\ lastCall' = [op |-> "Tick"]
    /\ UNCHANGED <<servers, sinceRemove, lockVars, httpVars, prunerVars, callerVars>>

CallerNext ==
    \/ \E a \in CallerAddrs : CallerParse(a)
    \/ \E e \in held : CallerRegister(e)
    \/ CallerList
    \/ \E id \in DOMAIN servers : CallerRemove(id)
    \/ CallerPrune
    \/ \E e \in held : CallerSetName(e)
    \/ \E e \in held, b \in CallerBytes : CallerSetByte(e, b)
    \/ CallerTick

SpecCaller == CallerInit /\ [][CallerNext]_vars

----------------------------------------------------------------------------
(* HandleRegister with its repository calls split at the lock operations,  *)
(* beside other goroutines that call the repository.  The handler runs in  *)
(* goroutine ProbeThread and serves request slot 1; its request is a valid *)
(* registration of 10.0.0.5:30000 sent from 10.0.0.5.                      *)

ProbeThread == NThreads

\* one other goroutine calls the repository
Others == {1}

ProbeAddr == [IP |-> IP5, Port |-> 30000]

\* the handler is between a call of c.repository.Has or Register and its return
ProbeCalls(op, pc) ==
    [calls EXCEPT ![ProbeThread] =
        NewCall(op, pc, AddressString(ProbeAddr),
                IF op = "Register" THEN MkServer(ProbeAddr, PrunerPayload, now)
                ELSE NoServer, 0)]

ProbeInit ==
    /\ servers = EmptyRepository
    /\ now = 0
    /\ lastCall = [op |-> "none"]
    /\ sinceRemove = {}
    /\ LockIdle
    /\ HttpIdle
    /\ PrunerIdle
    /\ CallerIdle

\* HandleRegister, or the HandleUpdate it delegates to, calls Has
ProbeHas ==
    /\ alive
    /\ reqs[1].pc \in {"idle", "update"}
    /\ calls' = ProbeCalls("Has", "rlock")
    /\ reqs' = [reqs EXCEPT ![1] =
                   IF reqs[1].pc = "idle"
                   THEN [pc |-> "has", pings |-> 0, since |-> now, reply |-> <<>>]
                   ELSE [reqs[1] EXCEPT !.pc = "has2"]]
    /\ resp' = NoResp
    /\ UNCHANGED <<repoVars, mu, ncalls, lastLocked, firstCount, alive, prunerVars, callerVars>>

\* a return from Has that keeps the read lock
ProbeHasReturnHolding ==
    /\ alive
    /\ calls[ProbeThread].pc = "runlock"
    /\ UNCHANGED mu
    /\ calls' = [calls EXCEPT ![ProbeThread] = IdleCall]
    /\ reqs' = [reqs EXCEPT ![1].pc =
                   IF reqs[1].pc = "has2" THEN "commit"
                   ELSE IF calls[ProbeThread].found THEN "update" ELSE "dial"]
    /\ resp' = NoResp
    /\ UNCHANGED <<repoVars, ncalls, lastLocked, firstCount, alive, prunerVars, callerVars>>

\* Has returns (its deferred RUnlock has run): if existed { c.HandleUpdate(ctx) }
ProbeHasReturn ==
    /\ alive
    /\ calls[ProbeThread].pc = "runlock"
    /\ mu' = [mu EXCEPT !.r = @ \ {ProbeThread}]
    /\ calls' = [calls EXCEPT ![ProbeThread] = IdleCall]
    /\ reqs' = [reqs EXCEPT ![1].pc =
                   IF reqs[1].pc = "has2" THEN "commit"
                   ELSE IF calls[ProbeThread].found THEN "update" ELSE "dial"]
    /\ resp' = NoResp
    /\ UNCHANGED <<repoVars, ncalls, lastLocked, firstCount, alive, prunerVars, callerVars>>

\* resolve, dial, set the deadline, send the pings; glog.Fatal on a failed dial
ProbeDial ==
    /\ alive
    /\ reqs[1].pc = "dial"
    /\ \E socketError \in BOOLEAN :
          IF ResolveFails(ProbeAddr) \/ socketError
          THEN /\ alive' = FALSE
               /\ reqs' = [reqs EXCEPT ![1].pc = "killed"]
          ELSE /\ reqs' = [reqs EXCEPT ![1].pings = 10, ![1].since = now, ![1].pc = "wait"]
               /\ UNCHANGED alive
    /\ resp' = NoResp
    /\ UNCHANGED <<repoVars, lockVars, prunerVars, callerVars>>

\* the read of the reply; after "pong" the handler validates and calls Register
ProbeReply ==
    /\ alive
    /\ reqs[1].pc = "wait"
    /\ \E reply \in ProbeReplies :
          IF reply = <<>>
          THEN /\ reqs' = [reqs EXCEPT ![1] = IdleReq]
               /\ resp' = [NoResp EXCEPT !.handler = "Register",
                              !.out = <<Response(504, "no ping response received")>>]
               /\ UNCHANGED calls
          ELSE IF ~IsPong(ProbeResponse(reply))
          THEN /\ reqs' = [reqs EXCEPT ![1] = IdleReq]
               /\ resp' = [NoResp EXCEPT !.handler = "Register", !.reply = reply,
                              !.out = <<Response(406, "Bad ping response")>>]
               /\ UNCHANGED calls
          ELSE /\ reqs' = [reqs EXCEPT ![1].pc = "register", ![1].reply = reply]
               /\ calls' = ProbeCalls("Register", "lock")
               /\ UNCHANGED resp
    /\ UNCHANGED <<repoVars, mu, ncalls, lastLocked, firstCount, alive, prunerVars,
                   callerVars>>

\* HandleUpdate after its Has: validation and source check pass, Register is called
ProbeCommit ==
    /\ alive
    /\ reqs[1].pc = "commit"
    /\ reqs' = [reqs EXCEPT ![1].pc = "register"]
    /\ calls' = ProbeCalls("Register", "lock")
    /\ resp' = NoResp
    /\ UNCHANGED <<repoVars, mu, ncalls, lastLocked, firstCount, alive, prunerVars, callerVars>>

\* Register returns (its deferred Unlock has run) and the handler answers
ProbeRegisterReturn ==
    /\ alive
    /\ calls[ProbeThread].pc = "unlock"
    /\ mu' = [mu EXCEPT !.w = 0]
    /\ calls' = [calls EXCEPT ![ProbeThread] = IdleCall]
    /\ reqs' = [reqs EXCEPT ![1] = IdleReq]
    /\ resp' = [NoResp EXCEPT !.handler = "Register", !.committed = TRUE,
                   !.existed = calls[ProbeThread].found, !.reply = reqs[1].reply,
                   !.out = <<IF reqs[1].pings > 0
                             THEN Response(200, "registration complete")
                             ELSE IF calls[ProbeThread].found
                             THEN Response(202, "updated")
                             ELSE Response(201, "registered")>>]
    /\ UNCHANGED <<repoVars, ncalls, lastLocked, firstCount, alive,
                   prunerVars, callerVars>>

ProbeNext ==
    \/ ProbeHas
    \/ ProbeHasReturn
    \/ ProbeDial
    \/ ProbeReply
    \/ ProbeCommit
    \/ ProbeRegisterReturn
    \/ \E t \in Others, a \in LockAddrs : CallRegister(t, a, PrunerPayload)
    \/ \E t \in Others, a \in LockAddrs : CallRemove(t, a)
    \/ \E t \in Others, threshold \in LockThresholds : CallPrune(t, threshold)
    \/ \E t \in Others, a \in LockAddrs : CallHas(t, a)
    \/ \E t \in Others : CallList(t)
    \/ \E t \in Threads : AcquireLock(t)
    \/ \E t \in Threads : AcquireRLock(t)
    \/ \E t \in Threads : ReadExists(t)
    \/ \E t \in Threads : WriteEntry(t)
    \/ \E t \in Others : DeleteEntry(t)
    \/ \E t \in Others : Sweep(t)
    \/ \E t \in Others : IterNext(t)
    \/ \E t \in Others : IterDone(t)
    \/ \E t \in Others : Unlock(t)
    \/ \E t \in Others : RUnlock(t)
    \/ LockTick

SpecProbe == ProbeInit /\ [][ProbeNext]_vars

\* the handler has sent or is about to send its pings and has no answer yet
ProbeOutstanding == reqs[1].pc \in {"dial", "wait"}

\* C16: while the probe of a first-contact registration is outstanding the
\* handler holds neither lock of the store and is in no call of it, so the
\* lock is free or held by another caller; the handler calls Register on
\* this path only from the wait for the reply, after ten pings and a "pong",
\* and the store changes under the handler's hand only inside that call.
C16_ProbeOutsideLock ==
    [][/\ ProbeOutstanding =>
             /\ mu.w # ProbeThread
             /\ ProbeThread \notin mu.r
             /\ calls[ProbeThread].pc = "idle"
       /\ (/\ calls[ProbeThread].pc = "idle"
           /\ calls'[ProbeThread].pc # "idle"
           /\ calls'[ProbeThread].op = "Register"
           /\ reqs[1].pings > 0) =>
             /\ reqs[1].pc = "wait"
             /\ reqs[1].pings = 10
             /\ ProbeResponse(reqs'[1].reply) = Pong
       /\ (servers' # servers /\ mu.w = ProbeThread) =>
             /\ reqs[1].pc = "register"
             /\ calls[ProbeThread].op = "Register"]_vars

\* the probe is outstanding, and a Register that another caller made after
\* the pings were sent has returned
C16_Witness ==
    /\ reqs[1].pc = "wait"
    /\ \E k \in DOMAIN servers : servers[k].LastSeen > reqs[1].since
    /\ AllIdle

----------------------------------------------------------------------------
(* POST /servers/:server_id alone, with more kinds of reply datagram.  The *)
(* read on the probe socket ends at its deadline when one was set: the     *)
(* step that ends the wait without a datagram is fair.                     *)

\* first datagrams: "pong", another word, "pong" with more bytes, two bytes
ProbeDatagrams ==
    {Pong, <<"n", "o", "p", "e">>, <<"p", "o", "n", "g", "!">>, <<"p", "o">>}

\* the read deadline of goroutine i passes with no datagram received
ReadTimeout(i) == RegisterProbed(i, Remote5, NoBody, <<>>)

VerifyNext ==
    \/ \E i \in Slots, rawid \in RawIds : RegisterStart(i, rawid)
    \/ \E i \in Slots : RegisterDial(i)
    \/ \E i \in Slots, remote \in Remotes, body \in Bodies, reply \in ProbeDatagrams :
          RegisterProbed(i, remote, body, reply)
    \/ \E i \in Slots : ReadTimeout(i)
    \/ \E i \in Slots, remote \in Remotes, body \in Bodies : UpdateDelegated(i, remote, body)
    \/ \E i \in Slots : UpdateCommit(i)
    \/ HttpTick

SpecVerify ==
    /\ HttpInit
    /\ [][VerifyNext]_vars
    /\ \A i \in Slots : WF_vars(ReadTimeout(i))

\* C17: every probe ends: a handler that waits for the reply leaves the wait,
\* with ProbeTimeout if no datagram arrives, also when SetReadDeadline failed.
C17_ProbeTerminates ==
    \A i \in Slots :
       (alive /\ reqs[i].pc = "wait") ~> (~alive \/ reqs[i].pc # "wait")

\* C19: the probe is classified by the first datagram alone: it succeeds iff
\* the datagram's first four bytes are "pong", any other datagram gives
\* ProbeRejected, the end of the wait without a datagram gives ProbeTimeout,
\* and the handler goes past the probe only on success.
C19_ProbeClassification ==
    [][\A i \in Slots :
          Leaves(i, "wait") =>
             LET d == resp'.reply
                 o == FinalOutcome(resp'.out)
                 passed == o \notin {"ProbeTimeout", "ProbeRejected", "ProbeUnreachable"}
             IN  /\ reqs'[i].pc = "idle"
                 /\ passed = (Len(d) >= 4 /\ SubSeq(d, 1, 4) = Pong)
                 /\ (d # <<>> /\ ~passed) => o = "ProbeRejected"
                 /\ d = <<>> => o = "ProbeTimeout"
                 /\ resp'.committed => passed]_vars

\* a reply longer than four bytes that starts with "pong" was accepted and
\* the registration committed
C19_Witness ==
    /\ resp.reply = <<"p", "o", "n", "g", "!">>
    /\ resp.committed
    /\ resp.out = <<Response(200, "registration complete")>>

----------------------------------------------------------------------------
(* The address codec on its own: a ServerAddress value is given, and       *)
(* String, ParseServerAddress of that string, and Validate are applied.    *)

\* ServerAddress values: no IP, the IPv6 loopback, and IPv4 addresses in
\* their 4-byte and 16-byte forms, with ports around both limits
CodecAddrs ==
    LET v4 == [1..4 -> {0, 10, 255}]
        ips == {NilIP, LoopbackV6} \cup v4 \cup {V4InV6Prefix \o ip : ip \in v4}
    IN  [IP : ips, Port : {-1, 0, 1023, 1024, 30000, 65535, 65536}]

CodecInit ==
    /\ servers = EmptyRepository
    /\ now = 0
    /\ lastCall \in {[op |-> "given", addr |-> a] : a \in CodecAddrs}
    /\ sinceRemove = {}
    /\ LockIdle
    /\ HttpIdle
    /\ PrunerIdle
    /\ CallerIdle

\* a.String()
CodecString ==
    /\ lastCall.op = "given"
    /\ lastCall' = [op |-> "String", addr |-> lastCall.addr,
                    str |-> AddressString(lastCall.addr)]
    /\ UNCHANGED <<servers, now, sinceRemove, lockVars, httpVars, prunerVars, callerVars>>

\* ParseServerAddress(a.String())
CodecParse ==
    /\ lastCall.op = "String"
    /\ lastCall' = [op |-> "Parse", addr |-> lastCall.addr, str |-> lastCall.str,
                    parsed |-> ParseServerAddress(lastCall.str)]
    /\ UNCHANGED <<servers, now, sinceRemove, lockVars, httpVars, prunerVars, callerVars>>

\* a.Validate()
CodecValidate ==
    /\ lastCall.op = "given"
    /\ lastCall' = [op |-> "Validate", addr |-> lastCall.addr,
                    err |-> AddressValidate(lastCall.addr)]
    /\ UNCHANGED <<servers, now, sinceRemove, lockVars, httpVars, prunerVars, callerVars>>

CodecNext ==
    \/ CodecString
    \/ CodecParse
    \/ CodecValidate

SpecCodec == CodecInit /\ [][CodecNext]_vars

\* C22: for an address a with an IPv4 host and a port in 1024..65535,
\* ParseServerAddress(a.String()) succeeds, its port is that of a, its IP is
\* Equal to that of a (and the very same bytes when a holds the 16-byte form
\* that parsing produces), and its String() is a.String().
C22_RoundTrip ==
    (/\ lastCall.op = "Parse"
     /\ IsIPv4(lastCall.addr.IP)
     /\ lastCall.addr.Port >= 1024
     /\ lastCall.addr.Port <= 65535) =>
        /\ lastCall.parsed.ok
        /\ lastCall.parsed.addr.Port = lastCall.addr.Port
        /\ IPEqual(lastCall.parsed.addr.IP, lastCall.addr.IP)
        /\ Len(lastCall.addr.IP) = 16 => lastCall.parsed.addr = lastCall.addr
        /\ AddressString(lastCall.parsed.addr) = lastCall.str

\* 10.0.255.0 in 4-byte form with port 65535 was formatted and parsed back
C22_Witness ==
    /\ lastCall.op = "Parse"
    /\ lastCall.addr = [IP |-> <<10, 0, 255, 0>>, Port |-> 65535]
    /\ lastCall.parsed.ok
    /\ lastCall.parsed.addr.IP = V4InV6Prefix \o <<10, 0, 255, 0>>

\* C23: Validate reports the IP when it is no IPv4 address, whatever the
\* port; otherwise it reports the port when it is below 1024 or above 65535;
\* otherwise it succeeds: 1024 and 65535 pass, 1023 and 65536 do not.
C23_ValidateAddress ==
    lastCall.op = "Validate" =>
        lastCall.err =
            IF ~IsIPv4(lastCall.addr.IP) THEN "IP is not a valid IPv4 address"
            ELSE IF lastCall.addr.Port \in 1024..65535 THEN ""
            ELSE "port is not within the valid port range"

\* an address with no IPv4 host and a port below the range was validated:
\* the error is the IP's
C23_Witness ==
    /\ lastCall.op = "Validate"
    /\ lastCall.addr = [IP |-> LoopbackV6, Port |-> 1023]
    /\ lastCall.err = "IP is not a valid IPv4 address"

----------------------------------------------------------------------------
(* The revision of main.go that holds the repository in package main:      *)
(* /register and /remove take the server's address from their JSON payload *)
(* and validate it with validateEntry.                                     *)

\* payloads: what json.Unmarshal leaves in serverData and whether it returns
\* nil.  Two servers, one with a name too short, a port below the range, an
\* empty object, and a body that is no JSON
MainPayloads ==
    { [json |-> TRUE, IP |-> IP5, Port |-> 30000, Name |-> NameMyServer,
       GameVersion |-> 3, IsJoinable |-> TRUE],
      [json |-> TRUE, IP |-> IP6, Port |-> 30000, Name |-> NameMyServer,
       GameVersion |-> 3, IsJoinable |-> TRUE],
      [json |-> TRUE, IP |-> IP5, Port |-> 30000, Name |-> NameShort,
       GameVersion |-> 3, IsJoinable |-> TRUE],
      [json |-> TRUE, IP |-> IP5, Port |-> 80, Name |-> NameMyServer,
       GameVersion |-> 3, IsJoinable |-> TRUE],
      [json |-> TRUE, IP |-> NilIP, Port |-> 0, Name |-> <<>>,
       GameVersion |-> 0, IsJoinable |-> FALSE],
      [json |-> FALSE, IP |-> NilIP, Port |-> 0, Name |-> <<>>,
       GameVersion |-> 0, IsJoinable |-> FALSE] }

\* serverName := "not important"
NotImportant ==
    <<"n", "o", "t", " ", "i", "m", "p", "o", "r", "t", "a", "n", "t">>

verifyIP(ip) == To4(ParseIP(ip)) # NilIP

verifyPort(port) ==
    IF Atoi(port).ok THEN ~(1024 > Atoi(port).val \/ Atoi(port).val > 65535) ELSE FALSE

\* validateEntry(ctx, jname, jip, jport), remote being ctx.Request.RemoteAddr
validateEntry(remote, jname, jip, jport) ==
    LET ip == SplitHostPort(remote).host
        a  == TrimSpace(jname)
    IN  IF ip # jip THEN FALSE
        ELSE IF 3 > Len(a) \/ Len(a) > 32 THEN FALSE
        ELSE verifyIP(ip) /\ verifyPort(jport)

\* what a handler of this revision wrote to its client
MainAnswer(handler, remote, data, out, existed) ==
    resp' = [handler |-> handler, remote |-> remote, data |-> data, out |-> out,
             existed |-> existed]

\* POST /register
MainRegister(remote, p) ==
    /\ \E data \in {MkServer([IP |-> p.IP, Port |-> p.Port], p, now)} :
       \E out \in {IF p.json THEN <<>> ELSE <<Response(400, "invalid request JSON")>>} :
          IF ~validateEntry(remote, data.Name, IPString(data.IP), Itoa(data.Port))
          THEN /\ MainAnswer("register", remote, data,
                             Append(out, Response(400, "name, IP, or port was invalid!")),
                             FALSE)
               /\ UNCHANGED servers
          ELSE \E r \in {Register(servers, data)} :
                  /\ servers' = r.servers
                  /\ MainAnswer("register", remote, data,
                                Append(out, IF r.existed THEN Response(200, "updated")
                                            ELSE Response(201, "registered")),
                                r.existed)
    /\ UNCHANGED <<now, lastCall, sinceRemove, lockVars, reqs, alive, prunerVars, callerVars>>

\* DELETE /remove
MainRemove(remote, p) ==
    /\ \E data \in {MkServer([IP |-> p.IP, Port |-> p.Port], p, 0)} :
       \E out \in {IF p.json THEN <<>> ELSE <<Response(400, "invalid request JSON")>>} :
       \E checked \in {IF validateEntry(remote, NotImportant, IPString(data.IP),
                                        Itoa(data.Port))
                        THEN out
                        ELSE Append(out, Response(400, "name, IP, or port was invalid!"))} :
       \E r \in {Remove(servers, ServerID(data))} :
          /\ servers' = r.servers
          /\ MainAnswer("remove", remote, data,
                        Append(checked, IF r.existed THEN Response(200, "success")
                                        ELSE Response(404, "failure")),
                        r.existed)
    /\ UNCHANGED <<now, lastCall, sinceRemove, lockVars, reqs, alive, prunerVars, callerVars>>

MainNext ==
    \/ \E remote \in Remotes, p \in MainPayloads : MainRegister(remote, p)
    \/ \E remote \in Remotes, p \in MainPayloads : MainRemove(remote, p)
    \/ HttpTick

SpecMain == HttpInit /\ [][MainNext]_vars

\* C35: a remove request whose payload IP is not the IP the request came
\* from, or whose payload fails validateEntry, leaves the repository as it
\* was.
C35_RemovesOnlyItself ==
    [][(/\ resp'.handler = "remove"
        /\ \/ IPString(resp'.data.IP) # SplitHostPort(resp'.remote).host
           \/ ~validateEntry(resp'.remote, NotImportant, IPString(resp'.data.IP),
                             Itoa(resp'.data.Port))) =>
          servers' = servers]_vars

----------------------------------------------------------------------------
(* The revisions of main.go that keep the servers in a global map of       *)
(* string maps keyed by the IP of the payload.  Here servers holds that    *)
(* map; last_seen, a time formatted to the second, is the time in seconds. *)

Ip5Text == <<"1", "0", ".", "0", ".", "0", ".", "5">>

\* what register pulls out of the request: severInfoMap[SERV_NAME],
\* [SERV_IP] and [SERV_PORT], each "" when the body has no such key
MapPayloads ==
    { [name |-> NameMyServer, ip |-> Ip5Text, port |-> <<"3", "0", "0", "0", "0">>],
      [name |-> NameRenamed, ip |-> Ip5Text, port |-> <<"3", "0", "0", "0", "1">>],
      [name |-> NameShort, ip |-> Ip5Text, port |-> <<"3", "0", "0", "0", "0">>],
      [name |-> NameMyServer, ip |-> Ip5Text, port |-> <<"8", "0">>],
      [name |-> NameMyServer, ip |-> <<"e", "x", "a", "m", "p", "l", "e">>,
       port |-> <<"3", "0", "0", "0", "0">>],
      [name |-> <<>>, ip |-> <<>>, port |-> <<>>] }

\* validateEntry(name, ip, port) of these revisions
validateEntryOfPayload(name, ip, port) ==
    LET a == TrimSpace(name)
    IN  IF 3 > Len(a) \/ Len(a) > 32 THEN FALSE
        ELSE verifyIP(ip) /\ verifyPort(port)

\* the local representation register builds
ServerInfo(p, t) == [name |-> p.name, ip |-> p.ip, port |-> p.port, last_seen |-> t]

\* POST /register: the answer, and the store at the end of the handler
MapRegister(p) ==
    /\ servers' = MapPut(servers, p.ip, ServerInfo(p, now))
    /\ resp' = [handler |-> "register", data |-> p, existed |-> Has(servers, p.ip),
                out |-> <<IF ~validateEntryOfPayload(p.name, p.ip, p.port)
                          THEN Response(400, "name, IP, or port was invalid!")
                          ELSE IF Has(servers, p.ip) THEN Response(200, "updated")
                          ELSE Response(201, "registered")>>]
    /\ UNCHANGED <<now, lastCall, sinceRemove, lockVars, reqs, alive, prunerVars, callerVars>>

MapNext ==
    \/ \E p \in MapPayloads : MapRegister(p)
    \/ HttpTick

SpecMap == HttpInit /\ [][MapNext]_vars

\* C36: a register request whose name, IP or port fails validateEntry is
\* answered 400 and leaves the servers map as it was.
C36_ValidatedBeforeStored ==
    [][(/\ resp'.handler = "register"
        /\ ~validateEntryOfPayload(resp'.data.name, resp'.data.ip, resp'.data.port)) =>
          /\ resp'.out = <<Response(400, "name, IP, or port was invalid!")>>
          /\ servers' = servers]_vars

----------------------------------------------------------------------------
(* The revision of main.go that guards the global servers map with mux, a  *)
(* sync.RWMutex: register, remove and the pruning goroutine, each split at *)
(* its lock operations and at each access to the map.  A goroutine's call  *)
(* is [pc, op, id, srv, found, visited, sample, intact, bare].             *)

\* the value of the -s flag, in seconds
MuxStale == 1

\* pruneInterval(stale), in seconds: time.Duration(stale / 2) * time.Second
pruneInterval(stale) == stale \div 2

\* intact: no other goroutine has written the key since this call looked it
\* up; bare: the call has read the map while holding neither lock
MuxCall(op, pc, id, srv) ==
    [pc |-> pc, op |-> op, id |-> id, srv |-> srv, found |-> FALSE, visited |-> {},
     sample |-> now, intact |-> TRUE, bare |-> FALSE]

\* register with a payload that passes validateEntry, up to mux.RLock()
MuxRegister(t, a) ==
    /\ alive
    /\ FirstIdle(t)
    /\ ncalls < MaxCalls
    /\ calls' = [calls EXCEPT ![t] =
                    MuxCall("register", "rlock", AddressString(a),
                            MkServer(a, PrunerPayload, now))]
    /\ ncalls' = ncalls + 1
    /\ UNCHANGED <<repoVars, mu, lastLocked, firstCount, httpVars, prunerVars, callerVars>>

\* remove with a payload that passes validateEntry, up to mux.RLock()
MuxRemove(t, a) ==
    /\ alive
    /\ FirstIdle(t)
    /\ ncalls < MaxCalls
    /\ calls' = [calls EXCEPT ![t] = MuxCall("remove", "rlock", AddressString(a), NoServer)]
    /\ ncalls' = ncalls + 1
    /\ UNCHANGED <<repoVars, mu, lastLocked, firstCount, httpVars, prunerVars, callerVars>>

\* the pruning goroutine wakes from its sleep: now := time.Now()
MuxSweep(t) ==
    /\ alive
    /\ FirstIdle(t)
    /\ ncalls < MaxCalls
    /\ \A u \in Threads : calls[u].pc # "idle" => calls[u].op # "pruneServers"
    /\ calls' = [calls EXCEPT ![t] = MuxCall("pruneServers", "range", <<>>, NoServer)]
    /\ ncalls' = ncalls + 1
    /\ UNCHANGED <<repoVars, mu, lastLocked, firstCount, httpVars, prunerVars, callerVars>>

\* mux.RLock()
MuxRLock(t) ==
    /\ alive
    /\ calls[t].pc = "rlock"
    /\ CanRLock(mu)
    /\ mu' = [mu EXCEPT !.r = @ \cup {t}]
    /\ calls' = [calls EXCEPT ![t].pc = "check"]
    /\ UNCHANGED <<repoVars, ncalls, lastLocked, firstCount, httpVars, prunerVars, callerVars>>

\* if _, ok := servers[key]; ok { ... } else { ... }; mux.RUnlock()
MuxCheck(t) ==
    /\ alive
    /\ calls[t].pc = "check"
    /\ mu' = [mu EXCEPT !.r = @ \ {t}]
    /\ calls' = [calls EXCEPT ![t].found = Has(servers, calls[t].id), ![t].pc = "lock"]
    /\ UNCHANGED <<repoVars, ncalls, lastLocked, firstCount, httpVars, prunerVars, callerVars>>

\* mux.Lock()
MuxLock(t) ==
    /\ alive
    /\ calls[t].pc = "lock"
    /\ CanLock(mu)
    /\ mu' = [mu EXCEPT !.w = t]
    /\ calls' = [calls EXCEPT ![t].pc = "write"]
    /\ UNCHANGED <<repoVars, ncalls, lastLocked, firstCount, httpVars, prunerVars, callerVars>>

\* servers[key] = serverData, or delete(servers, key); the calls of the
\* other goroutines that have looked the key up and not yet written it
\* learn of the write
MuxWrite(t) ==
    /\ alive
    /\ calls[t].pc = "write"
    /\ servers' = IF calls[t].op = "register"
                  THEN MapPut(servers, calls[t].id, calls[t].srv)
                  ELSE MapDelete(servers, calls[t].id)
    /\ calls' = [u \in Threads |->
                    IF u = t THEN [calls[t] EXCEPT !.pc = "unlock"]
                    ELSE IF calls[u].pc = "lock" /\ calls[u].id = calls[t].id
                              /\ calls[u].op # "pruneServers"
                    THEN [calls[u] EXCEPT !.intact = FALSE]
                    ELSE calls[u]]
    /\ UNCHANGED <<now, lastCall, sinceRemove, mu, ncalls, lastLocked, firstCount,
                   httpVars, prunerVars, callerVars>>

\* mux.Unlock(): a handler returns, the pruning goroutine goes on with its
\* loop over the map
MuxUnlock(t) ==
    /\ alive
    /\ calls[t].pc = "unlock"
    /\ mu' = [mu EXCEPT !.w = 0]
    /\ calls' = [calls EXCEPT ![t] = IF calls[t].op = "pruneServers"
                                     THEN [calls[t] EXCEPT !.pc = "range"]
                                     ELSE IdleCall]
    /\ UNCHANGED <<repoVars, ncalls, lastLocked, firstCount, httpVars, prunerVars, callerVars>>

\* one iteration of for key, server := range servers, with no lock held.
\* While another goroutine is writing the map the runtime may stop the
\* program (concurrent map iteration and map write) or let the loop go on;
\* after the last key the goroutine sleeps
MuxRange(t) ==
    /\ alive
    /\ calls[t].pc = "range"
    /\ \E fatal \in {FALSE} \cup {mu.w # 0} :
          IF fatal
          THEN /\ alive' = FALSE
               /\ calls' = [calls EXCEPT ![t].pc = "killed", ![t].bare = TRUE]
          ELSE /\ UNCHANGED alive
               /\ IF DOMAIN servers \ calls[t].visited = {}
                  THEN calls' = [calls EXCEPT ![t] = IdleCall]
                  ELSE \E k \in DOMAIN servers \ calls[t].visited :
                          calls' = [calls EXCEPT
                              ![t].visited = @ \cup {k},
                              ![t].bare = TRUE,
                              ![t].id = k,
                              ![t].pc = IF servers[k].LastSeen + pruneInterval(MuxStale) * 2
                                            < calls[t].sample
                                        THEN "lock" ELSE "range"]
    /\ UNCHANGED <<repoVars, mu, ncalls, lastLocked, firstCount, reqs, resp, prunerVars,
                   callerVars>>

MuxNext ==
    \/ \E t \in Threads, a \in LockTargets : MuxRegister(t, a)
    \/ \E t \in Threads, a \in LockTargets : MuxRemove(t, a)
    \/ \E t \in Threads : MuxSweep(t)
    \/ \E t \in Threads : MuxRLock(t)
    \/ \E t \in Threads : MuxCheck(t)
    \/ \E t \in Threads : MuxLock(t)
    \/ \E t \in Threads : MuxWrite(t)
    \/ \E t \in Threads : MuxUnlock(t)
    \/ \E t \in Threads : MuxRange(t)
    \/ LockTick

SpecMux == LockInit /\ [][MuxNext]_vars

\* C37: no goroutine reads the map while it holds neither lock of mux, the
\* loop of the pruning goroutine over the map is not under way while a
\* handler holds the write lock, and a register or remove request that holds
\* the write lock writes a key that no other request has written since it
\* looked the key up.
C37_MapUnderMux ==
    \A t \in Threads :
       calls[t].pc # "idle" =>
          /\ ~calls[t].bare
          /\ (calls[t].op = "pruneServers" /\ calls[t].pc = "range") =>
                (mu.w = 0 \/ calls[t].visited = {})
          /\ (calls[t].op # "pruneServers" /\ calls[t].pc = "write") => calls[t].intact

----------------------------------------------------------------------------
(* The pruning goroutine of that revision on its own: pruneServers with    *)
(* the value of the -s flag, beside registrations.  Time is counted in     *)
(* seconds, staleThreshold is the flag, nextTick the time the goroutine    *)
(* wakes from its sleep.                                                   *)

\* go pruneServers(staleThreshold)
IntervalInit ==
    /\ servers = EmptyRepository
    /\ now = 0
    /\ lastCall = [op |-> "none"]
    /\ sinceRemove = {}
    /\ LockIdle
    /\ HttpIdle
    /\ CallerIdle
    /\ staleThreshold \in StaleSeconds
    /\ nextTick = <<0>>

\* one pass of the for loop: the sweep over the map, then
\* time.Sleep(pruneInterval), which returns at once for an interval of 0
IntervalSweep ==
    /\ now >= nextTick[1]
    /\ servers' = [k \in {x \in DOMAIN servers :
                             ~(servers[x].LastSeen + pruneInterval(staleThreshold) * 2 < now)}
                      |-> servers[k]]
    /\ nextTick' = <<now + pruneInterval(staleThreshold)>>
    /\ lastCall' = [op |-> "Sweep"]
    /\ UNCHANGED <<now, sinceRemove, lockVars, httpVars, staleThreshold, callerVars>>

\* register stores serverData with LastSeen the current time
IntervalRegister(a) ==
    /\ servers' = MapPut(servers, AddressString(a), MkServer(a, PrunerPayload, now))
    /\ lastCall' = [op |-> "Register"]
    /\ UNCHANGED <<now, sinceRemove, lockVars, httpVars, prunerVars, callerVars>>

\* time passes while the goroutine sleeps, or while it spins
IntervalClock ==
    /\ now < MaxPruneTime
    /\ now < nextTick[1] \/ pruneInterval(staleThreshold) = 0
    /\ now' = now + 1
    /\ lastCall' = [op |-> "Tick"]
    /\ UNCHANGED <<servers, sinceRemove, lockVars, httpVars, prunerVars, callerVars>>

IntervalNext ==
    \/ IntervalSweep
    \/ \E a \in PrunerAddrs : IntervalRegister(a)
    \/ IntervalClock

SpecInterval == IntervalInit /\ [][IntervalNext]_vars

\* C38: in every pass of the pruning loop the interval is exactly half of
\* the configured threshold, the entries deleted are exactly those last seen
\* more than the configured threshold ago, and the sleep that follows is
\* positive.
C38_HalfThreshold ==
    [][lastCall'.op = "Sweep" =>
          /\ 2 * pruneInterval(staleThreshold) = staleThreshold
          /\ \A k \in DOMAIN servers :
                k \in DOMAIN servers' <=> ~(servers[k].LastSeen + staleThreshold < now)
          /\ nextTick'[1] > now]_vars

====
